---- MODULE Spec2Model ----
(***************************************************************************)
(* Verification model of the cosmos-swap repository.                       *)
(*                                                                         *)
(*   - the EVM destination escrow (evm/contracts/escrow/Escrow.sol)        *)
(*   - the Cosmos HTLC keeper     (x/htlc/keeper/keeper.go)                *)
(*                                                                         *)
(* SpecEscrow runs one Escrow contract alone, Spec runs one Escrow and the *)
(* keeper side by side as the two legs of swaps.                           *)
(*                                                                         *)
(*   - the Dutch auction price, as the relayer and the two auction         *)
(*     contracts compute it                          (SpecPrice)           *)
(*   - the auction contract DutchAuctionManager.sol  (SpecManager)         *)
(*   - the relayer's scans and its OrderManager      (SpecCoordinator)     *)
(*   - the OrderManager's update path                (SpecUpdates)         *)
(*   - the partial-fill auction DutchAuctionPartial  (SpecPartial)         *)
(*   - Start and Stop of the OrderManager            (SpecShutdown)        *)
(***************************************************************************)
EXTENDS Integers, Sequences, FiniteSets, TLC

(***************************************************************************)
(* Bounds of the model                                                     *)
(***************************************************************************)
MaxAmount == 3
MaxTime == 2
MaxSecret == 1
MaxHTLCs == 1
MaxPrice == 4
MaxDuration == 3
TicksPerSecond == 2
MaxAdds == 2
MaxUpdates == 1
MaxFailures == 1
MaxPartialOrders == 1
MaxCreates == 2
UintBits == 3

(***************************************************************************)
(* Program constants                                                       *)
(***************************************************************************)
Sha256Size == 32
NewOrdersChanCap == 100
MaxRetries == 3

(***************************************************************************)
(* Value domains                                                           *)
(***************************************************************************)
AddressZero == "0x0"
Token == "erc20"
Accounts == {"maker", "taker", "other"}
Parties == {"maker", "taker"}
Secrets == 0 .. MaxSecret
Amounts == 0 .. MaxAmount
Times == 0 .. MaxTime

\* keccak256(abi.encodePacked(secret)) and sha256.Sum256(preimage): two
\* different collision-free digests over the secret domain.
keccak256(s) == (s + 1) % (MaxSecret + 2)
sha256Sum256(s) == [len |-> Sha256Size, digest |-> (s + 2) % (MaxSecret + 2)]

Digests == 0 .. (MaxSecret + 1)

VARIABLES
    now,          \* block.timestamp / ctx.BlockTime().Unix()
    escrowInfo,   \* Escrow.escrowInfo
    balance,      \* funds held by the Escrow contract
    paid,         \* funds the Escrow has transferred out, per recipient
    htlcs,        \* keeper KVStore: HTLC id -> HTLC
    nextHTLCId,   \* keeper KVStore: KeyNextHTLCId
    bank,         \* bank balances of the accounts and of the htlc module
    call,         \* the last call made: its name and its arguments
    err,          \* its result: "ok" or the error it failed with
    quote,        \* auction parameters, an instant, and the prices quoted for it
    auctions,           \* DutchAuctionManager.auctions
    authorizedBidders,  \* DutchAuctionManager.authorizedBidders
    activeOrders,       \* OrderManager.activeOrders: order ID -> Order
    newOrdersChan,      \* OrderManager.newOrdersChan
    lastCronosBlock,    \* RelayerService.lastCronosBlock
    lastEthereumBlock,  \* RelayerService.lastEthereumBlock
    updateOrdersChan,   \* OrderManager.updateOrdersChan: pointers to Orders
    completedOrders,    \* OrderManager.completedOrders: pointers to Orders
    detached,           \* the Orders a channel points to that left activeOrders
    commands,           \* the commands sent to the two ledgers, in order
    ledger,             \* the escrows of an order as they are on the two ledgers
    matchedLog,         \* "Order matched for execution" log lines, per order ID
    workers,            \* OrderManager's goroutines: where each one is
    stopChan,           \* OrderManager.stopChan: "open" or "closed"
    wg,                 \* OrderManager.wg: the goroutines not yet done
    stop,               \* the call of OrderManager.Stop: where it is
    partialOrders,      \* DutchAuctionPartial.orders
    nextOrderId,        \* DutchAuctionPartial.nextOrderId
    tokenBalance,       \* balances of the ERC20 token DutchAuctionPartial escrows
    ordersMutex,        \* OrderManager.ordersMutex: its writer and its readers
    tasks,              \* the relayer's goroutines, statement by statement
    htlcStore           \* the handler module's KVStore: hash lock -> HTLC

escrowVars == <<escrowInfo, balance, paid>>
keeperVars == <<htlcs, nextHTLCId, bank>>
managerVars == <<auctions, authorizedBidders>>
updateVars == <<updateOrdersChan, completedOrders, detached, ledger, matchedLog>>
coordinatorVars == <<activeOrders, newOrdersChan, lastCronosBlock, lastEthereumBlock,
                     commands, updateVars>>
shutdownVars == <<workers, stopChan, wg, stop>>
partialVars == <<partialOrders, nextOrderId, tokenBalance>>
taskVars == <<ordersMutex, tasks>>
handlerVars == <<htlcStore>>
vars == <<now, escrowInfo, balance, paid, htlcs, nextHTLCId, bank, call, err,
          quote, managerVars, coordinatorVars, shutdownVars, partialVars, taskVars, handlerVars>>

\* the parts of the system a specification leaves out stay as constructed
NoQuote == quote = <<>>
NoManager == auctions = <<>> /\ authorizedBidders = {}
NoCoordinator ==
    /\ activeOrders = <<>> /\ newOrdersChan = <<>>
    /\ lastCronosBlock = 0 /\ lastEthereumBlock = 0
    /\ updateOrdersChan = <<>> /\ completedOrders = <<>> /\ detached = <<>>
    /\ commands = <<>> /\ ledger = <<>> /\ matchedLog = <<>>
\* an OrderManager that was not started
NoShutdown == workers = <<>> /\ stopChan = "open" /\ wg = 0 /\ stop = "idle"
NoPartial == partialOrders = <<>> /\ nextOrderId = 0 /\ tokenBalance = <<>>
\* no goroutine is followed statement by statement
NoTasks == ordersMutex = [writer |-> "", readers |-> {}] /\ tasks = <<>>
NoHandler == htlcStore = <<>>

(***************************************************************************)
(* Escrow.sol                                                              *)
(***************************************************************************)
Active == "Active"
Withdrawn == "Withdrawn"
Cancelled == "Cancelled"

\* constructor, as called by EscrowFactory.createDestinationEscrow
EscrowInfo(_maker, _taker, _secretHash, _timelock, _expectedAmount, _allowPartialFill, _minimumFillAmount) ==
    [maker |-> _maker,
     taker |-> _taker,
     secretHash |-> _secretHash,
     timelock |-> _timelock,
     expectedAmount |-> _expectedAmount,
     depositedAmount |-> 0,
     tokenAddress |-> AddressZero,
     status |-> Active,
     srcConfirmed |-> FALSE,
     srcTxHash |-> "",
     srcBlockHeight |-> 0,
     allowPartialFill |-> _allowPartialFill,
     filledAmount |-> 0,
     remainingAmount |-> 0,
     minimumFillAmount |-> _minimumFillAmount]

onlyMaker(sender) == IF sender # escrowInfo.maker THEN "Unauthorized" ELSE "ok"

onlyTaker(sender) == IF sender # escrowInfo.taker THEN "Unauthorized" ELSE "ok"

\* seeded fault: the modifier lets a withdrawn escrow through
onlyActiveIgnoresWithdrawn ==
    IF escrowInfo.status = Cancelled THEN "AlreadyCancelled" ELSE "ok"

onlyActive ==
    IF escrowInfo.status = Withdrawn THEN "AlreadyWithdrawn"
    ELSE IF escrowInfo.status = Cancelled THEN "AlreadyCancelled"
    ELSE "ok"

\* first failing check of a list of checks, "ok" when none fails
RECURSIVE FirstError(_)
FirstError(checks) ==
    IF checks = <<>> THEN "ok"
    ELSE IF Head(checks) # "ok" THEN Head(checks)
    ELSE FirstError(Tail(checks))

\* _transferFunds: the ETH call fails when the recipient does not accept it,
\* either transfer fails when the contract does not hold the amount
_transferFunds(amount, accepts) ==
    IF amount > balance THEN "InsufficientFunds"
    ELSE IF escrowInfo.tokenAddress = AddressZero /\ ~accepts THEN "InsufficientFunds"
    ELSE "ok"

Reverted(c, e) ==
    /\ call' = c
    /\ err' = e
    /\ UNCHANGED <<escrowInfo, balance, paid>>

depositETHCheck(sender, value) ==
    FirstError(<<onlyTaker(sender),
                 onlyActive,
                 IF value # escrowInfo.expectedAmount THEN "InvalidAmount" ELSE "ok",
                 IF escrowInfo.depositedAmount > 0 THEN "AlreadyWithdrawn" ELSE "ok">>)

depositETH(sender, value) ==
    LET e == depositETHCheck(sender, value)
        c == [op |-> "depositETH", sender |-> sender, amount |-> value]
    IN
    IF e # "ok" THEN Reverted(c, e)
    ELSE /\ escrowInfo' = [escrowInfo EXCEPT !.depositedAmount = value,
                                             !.remainingAmount = value,
                                             !.tokenAddress = AddressZero]
         /\ balance' = balance + value
         /\ call' = c
         /\ err' = "ok"
         /\ UNCHANGED paid

depositTokenCheck(sender, amount, approved) ==
    FirstError(<<onlyTaker(sender),
                 onlyActive,
                 IF amount # escrowInfo.expectedAmount THEN "InvalidAmount" ELSE "ok",
                 IF escrowInfo.depositedAmount > 0 THEN "AlreadyWithdrawn" ELSE "ok",
                 IF ~approved THEN "SafeERC20FailedOperation" ELSE "ok">>)

depositToken(sender, tokenAddress, amount, approved) ==
    LET e == depositTokenCheck(sender, amount, approved)
        c == [op |-> "depositToken", sender |-> sender, amount |-> amount]
    IN
    IF e # "ok" THEN Reverted(c, e)
    ELSE /\ escrowInfo' = [escrowInfo EXCEPT !.depositedAmount = amount,
                                             !.remainingAmount = amount,
                                             !.tokenAddress = tokenAddress]
         /\ balance' = balance + amount
         /\ call' = c
         /\ err' = "ok"
         /\ UNCHANGED paid

withdrawAmount ==
    IF escrowInfo.allowPartialFill THEN escrowInfo.remainingAmount
    ELSE escrowInfo.depositedAmount

\* seeded fault: withdraw without the comparison of the secret's hash
withdrawCheckSkipsSecret(sender, secret, accepts) ==
    FirstError(<<onlyMaker(sender),
                 onlyActive,
                 IF ~escrowInfo.srcConfirmed THEN "SourceEscrowNotConfirmed" ELSE "ok",
                 _transferFunds(withdrawAmount, accepts)>>)

\* seeded fault: withdraw without the source-confirmation check
withdrawCheckSkipsSource(sender, secret, accepts) ==
    FirstError(<<onlyMaker(sender),
                 onlyActive,
                 IF keccak256(secret) # escrowInfo.secretHash THEN "InvalidSecret" ELSE "ok",
                 _transferFunds(withdrawAmount, accepts)>>)

withdrawCheck(sender, secret, accepts) ==
    FirstError(<<onlyMaker(sender),
                 onlyActive,
                 IF ~escrowInfo.srcConfirmed THEN "SourceEscrowNotConfirmed" ELSE "ok",
                 IF keccak256(secret) # escrowInfo.secretHash THEN "InvalidSecret" ELSE "ok",
                 _transferFunds(withdrawAmount, accepts)>>)

withdraw(sender, secret, accepts) ==
    LET e == withdrawCheck(sender, secret, accepts)
        c == [op |-> "withdraw", sender |-> sender, secret |-> secret]
    IN
    IF e # "ok" THEN Reverted(c, e)
    ELSE /\ escrowInfo' = [escrowInfo EXCEPT !.status = Withdrawn]
         /\ balance' = balance - withdrawAmount
         /\ paid' = [paid EXCEPT ![escrowInfo.maker] = @ + withdrawAmount]
         /\ call' = c
         /\ err' = "ok"

partialWithdrawCheck(sender, secret, amount, accepts) ==
    FirstError(<<onlyMaker(sender),
                 onlyActive,
                 IF ~escrowInfo.allowPartialFill THEN "PartialFillNotAllowed" ELSE "ok",
                 IF ~escrowInfo.srcConfirmed THEN "SourceEscrowNotConfirmed" ELSE "ok",
                 IF keccak256(secret) # escrowInfo.secretHash THEN "InvalidSecret" ELSE "ok",
                 IF amount > escrowInfo.remainingAmount THEN "InsufficientFunds" ELSE "ok",
                 IF amount < escrowInfo.minimumFillAmount /\ escrowInfo.minimumFillAmount > 0
                     THEN "InvalidPartialFillAmount" ELSE "ok",
                 _transferFunds(amount, accepts)>>)

\* seeded fault: the partial withdrawal is added to filledAmount but not
\* taken off remainingAmount
partialWithdrawnKeepsRemaining(amount) ==
    [escrowInfo EXCEPT
        !.filledAmount = @ + amount,
        !.status = IF escrowInfo.remainingAmount - amount = 0 THEN Withdrawn ELSE @]

\* the bookkeeping of a partial withdrawal that passed its checks
partialWithdrawn(amount) ==
    [escrowInfo EXCEPT
        !.filledAmount = @ + amount,
        !.remainingAmount = @ - amount,
        !.status = IF escrowInfo.remainingAmount - amount = 0 THEN Withdrawn ELSE @]

partialWithdraw(sender, secret, amount, accepts) ==
    LET e == partialWithdrawCheck(sender, secret, amount, accepts)
        c == [op |-> "partialWithdraw", sender |-> sender, secret |-> secret, amount |-> amount]
    IN
    IF e # "ok" THEN Reverted(c, e)
    ELSE /\ escrowInfo' = partialWithdrawn(amount)
         /\ balance' = balance - amount
         /\ paid' = [paid EXCEPT ![escrowInfo.maker] = @ + amount]
         /\ call' = c
         /\ err' = "ok"

\* seeded fault: cancel returns the filled amount instead of the remainder
returnAmountUsesFilled ==
    IF escrowInfo.filledAmount > 0 THEN escrowInfo.filledAmount
    ELSE escrowInfo.depositedAmount

returnAmount ==
    IF escrowInfo.remainingAmount > 0 THEN escrowInfo.remainingAmount
    ELSE escrowInfo.depositedAmount

\* seeded fault: cancel without the timelock check
cancelCheckSkipsTimelock(sender, accepts) ==
    FirstError(<<onlyTaker(sender),
                 onlyActive,
                 _transferFunds(returnAmount, accepts)>>)

cancelCheck(sender, accepts) ==
    FirstError(<<onlyTaker(sender),
                 onlyActive,
                 IF now < escrowInfo.timelock THEN "TimelockNotExpired" ELSE "ok",
                 _transferFunds(returnAmount, accepts)>>)

cancel(sender, accepts) ==
    LET e == cancelCheck(sender, accepts)
        c == [op |-> "cancel", sender |-> sender]
    IN
    IF e # "ok" THEN Reverted(c, e)
    ELSE /\ escrowInfo' = [escrowInfo EXCEPT !.status = Cancelled]
         /\ balance' = balance - returnAmount
         /\ paid' = [paid EXCEPT ![escrowInfo.taker] = @ + returnAmount]
         /\ call' = c
         /\ err' = "ok"

confirmSourceEscrowCheck(sender) == "ok"

confirmSourceEscrow(sender, srcTxHash, srcBlockHeight) ==
    LET e == confirmSourceEscrowCheck(sender)
        c == [op |-> "confirmSourceEscrow", sender |-> sender]
    IN
    IF e # "ok" THEN Reverted(c, e)
    ELSE /\ escrowInfo' = [escrowInfo EXCEPT !.srcConfirmed = TRUE,
                                             !.srcTxHash = srcTxHash,
                                             !.srcBlockHeight = srcBlockHeight]
         /\ call' = c
         /\ err' = "ok"
         /\ UNCHANGED <<balance, paid>>

\* the chain produces a block with a later timestamp
Tick ==
    /\ now < MaxTime
    /\ now' = now + 1
    /\ UNCHANGED <<escrowInfo, balance, paid, htlcs, nextHTLCId, bank, call, err>>
    /\ UNCHANGED <<quote, managerVars, coordinatorVars, shutdownVars, partialVars, taskVars, handlerVars>>

(***************************************************************************)
(* One Escrow contract alone                                               *)
(***************************************************************************)
TxHashes == {"0xsrc"}
BlockHeights == {1}

InitEscrow ==
    /\ now = 0
    /\ \E h \in {keccak256(0)}, t \in {1}, x \in 1 .. MaxAmount,
          p \in BOOLEAN, m \in Amounts :
          escrowInfo = EscrowInfo("maker", "taker", h, t, x, p, m)
    /\ balance = 0
    /\ paid = [a \in {"maker", "taker"} |-> 0]
    /\ htlcs = <<>>
    /\ nextHTLCId = 1
    /\ bank = [a \in Accounts \cup {"htlc"} |-> 0]
    /\ call = [op |-> "constructor"]
    /\ err = "ok"
    /\ NoQuote /\ NoManager /\ NoCoordinator /\ NoShutdown /\ NoPartial /\ NoTasks /\ NoHandler

DepositETH ==
    /\ \E s \in Parties, v \in Amounts : depositETH(s, v)
    /\ UNCHANGED <<now, htlcs, nextHTLCId, bank, quote, managerVars, coordinatorVars,
                   shutdownVars, partialVars, taskVars, handlerVars>>

DepositToken ==
    /\ \E s \in Parties, v \in Amounts, ap \in BOOLEAN : depositToken(s, Token, v, ap)
    /\ UNCHANGED <<now, htlcs, nextHTLCId, bank, quote, managerVars, coordinatorVars,
                   shutdownVars, partialVars, taskVars, handlerVars>>

Withdraw ==
    /\ \E s \in Parties, x \in Secrets, ac \in BOOLEAN : withdraw(s, x, ac)
    /\ UNCHANGED <<now, htlcs, nextHTLCId, bank, quote, managerVars, coordinatorVars,
                   shutdownVars, partialVars, taskVars, handlerVars>>

PartialWithdraw ==
    /\ \E s \in Parties, x \in Secrets, v \in Amounts, ac \in BOOLEAN :
          partialWithdraw(s, x, v, ac)
    /\ UNCHANGED <<now, htlcs, nextHTLCId, bank, quote, managerVars, coordinatorVars,
                   shutdownVars, partialVars, taskVars, handlerVars>>

Cancel ==
    /\ \E s \in Parties, ac \in BOOLEAN : cancel(s, ac)
    /\ UNCHANGED <<now, htlcs, nextHTLCId, bank, quote, managerVars, coordinatorVars,
                   shutdownVars, partialVars, taskVars, handlerVars>>

\* confirmSourceEscrow has no access check: any account may call it
ConfirmSourceEscrow ==
    /\ \E s \in Accounts, h \in TxHashes, b \in BlockHeights : confirmSourceEscrow(s, h, b)
    /\ UNCHANGED <<now, htlcs, nextHTLCId, bank, quote, managerVars, coordinatorVars,
                   shutdownVars, partialVars, taskVars, handlerVars>>

NextEscrow ==
    \/ DepositETH
    \/ DepositToken
    \/ Withdraw
    \/ PartialWithdraw
    \/ Cancel
    \/ ConfirmSourceEscrow
    \/ Tick

SpecEscrow == InitEscrow /\ [][NextEscrow]_vars

(***************************************************************************)
(* x/htlc/keeper/keeper.go                                                 *)
(***************************************************************************)
ModuleName == "htlc"

GetHTLC(id) ==
    IF id \in DOMAIN htlcs THEN [htlc |-> htlcs[id], found |-> TRUE]
    ELSE [htlc |-> <<>>, found |-> FALSE]

\* a counter that hands out the ID it handed out last
GetNextHTLCIdReused == IF nextHTLCId > 1 THEN nextHTLCId - 1 ELSE 1

GetNextHTLCId == nextHTLCId

\* bankKeeper.SendCoinsFromAccountToModule / SendCoinsFromModuleToAccount
SendCoins(from, to, amount) ==
    IF bank[from] < amount THEN "insufficient funds" ELSE "ok"

Failed(c, e) ==
    /\ call' = c
    /\ err' = e
    /\ UNCHANGED <<htlcs, nextHTLCId, bank>>

CreateHTLCCheck(sender, receiver, amount, hashLock, timeLock) ==
    FirstError(<<IF hashLock.len # Sha256Size THEN "ErrInvalidHashLock" ELSE "ok",
                 IF timeLock <= now THEN "ErrInvalidTimeLock" ELSE "ok",
                 SendCoins(sender, ModuleName, amount)>>)

CreateHTLC(sender, receiver, amount, hashLock, timeLock) ==
    LET e == CreateHTLCCheck(sender, receiver, amount, hashLock, timeLock)
        id == GetNextHTLCId
        c == [op |-> "CreateHTLC", sender |-> sender, hashLock |-> hashLock,
              timeLock |-> timeLock, id |-> IF e = "ok" THEN id ELSE 0]
    IN
    IF e # "ok" THEN Failed(c, e)
    ELSE /\ bank' = [bank EXCEPT ![sender] = @ - amount, ![ModuleName] = @ + amount]
         /\ htlcs' = htlcs @@ (id :> [Id |-> id,
                                      Sender |-> sender,
                                      Receiver |-> receiver,
                                      Amount |-> amount,
                                      HashLock |-> hashLock,
                                      TimeLock |-> timeLock,
                                      Claimed |-> FALSE,
                                      Refunded |-> FALSE])
         /\ nextHTLCId' = GetNextHTLCId + 1
         /\ call' = c
         /\ err' = "ok"

\* a claim that does not ask who claims
ClaimHTLCCheckAnyClaimer(id, preimage, claimer) ==
    LET r == GetHTLC(id) IN
    IF ~r.found THEN "ErrHTLCNotFound"
    ELSE FirstError(<<IF r.htlc.Claimed THEN "ErrHTLCClaimed" ELSE "ok",
                      IF r.htlc.Refunded THEN "ErrHTLCRefunded" ELSE "ok",
                      IF sha256Sum256(preimage) # r.htlc.HashLock THEN "ErrInvalidPreimage" ELSE "ok",
                      IF now > r.htlc.TimeLock THEN "ErrHTLCExpired" ELSE "ok",
                      SendCoins(ModuleName, r.htlc.Receiver, r.htlc.Amount)>>)

ClaimHTLCCheck(id, preimage, claimer) ==
    LET r == GetHTLC(id) IN
    IF ~r.found THEN "ErrHTLCNotFound"
    ELSE FirstError(<<IF r.htlc.Claimed THEN "ErrHTLCClaimed" ELSE "ok",
                      IF r.htlc.Refunded THEN "ErrHTLCRefunded" ELSE "ok",
                      IF sha256Sum256(preimage) # r.htlc.HashLock THEN "ErrInvalidPreimage" ELSE "ok",
                      IF claimer # r.htlc.Receiver THEN "ErrUnauthorizedClaimer" ELSE "ok",
                      IF now > r.htlc.TimeLock THEN "ErrHTLCExpired" ELSE "ok",
                      SendCoins(ModuleName, r.htlc.Receiver, r.htlc.Amount)>>)

\* a message that returns an error is not committed: the write of the Claimed
\* flag is dropped together with the failed bank transfer
ClaimHTLC(id, preimage, claimer) ==
    LET e == ClaimHTLCCheck(id, preimage, claimer)
        c == [op |-> "ClaimHTLC", id |-> id, sender |-> claimer, secret |-> preimage]
    IN
    IF e # "ok" THEN Failed(c, e)
    ELSE /\ htlcs' = [htlcs EXCEPT ![id].Claimed = TRUE]
         /\ bank' = [bank EXCEPT ![ModuleName] = @ - htlcs[id].Amount,
                                 ![htlcs[id].Receiver] = @ + htlcs[id].Amount]
         /\ call' = c
         /\ err' = "ok"
         /\ UNCHANGED nextHTLCId

\* a refund that does not ask whether the HTLC was claimed
RefundHTLCCheckIgnoresClaimed(id, refunder) ==
    LET r == GetHTLC(id) IN
    IF ~r.found THEN "ErrHTLCNotFound"
    ELSE FirstError(<<IF r.htlc.Refunded THEN "ErrHTLCRefunded" ELSE "ok",
                      IF refunder # r.htlc.Sender THEN "ErrUnauthorizedRefunder" ELSE "ok",
                      IF now < r.htlc.TimeLock THEN "ErrHTLCNotExpired" ELSE "ok",
                      SendCoins(ModuleName, r.htlc.Sender, r.htlc.Amount)>>)

RefundHTLCCheck(id, refunder) ==
    LET r == GetHTLC(id) IN
    IF ~r.found THEN "ErrHTLCNotFound"
    ELSE FirstError(<<IF r.htlc.Claimed THEN "ErrHTLCClaimed" ELSE "ok",
                      IF r.htlc.Refunded THEN "ErrHTLCRefunded" ELSE "ok",
                      IF refunder # r.htlc.Sender THEN "ErrUnauthorizedRefunder" ELSE "ok",
                      IF now < r.htlc.TimeLock THEN "ErrHTLCNotExpired" ELSE "ok",
                      SendCoins(ModuleName, r.htlc.Sender, r.htlc.Amount)>>)

RefundHTLC(id, refunder) ==
    LET e == RefundHTLCCheck(id, refunder)
        c == [op |-> "RefundHTLC", id |-> id, sender |-> refunder]
    IN
    IF e # "ok" THEN Failed(c, e)
    ELSE /\ htlcs' = [htlcs EXCEPT ![id].Refunded = TRUE]
         /\ bank' = [bank EXCEPT ![ModuleName] = @ - htlcs[id].Amount,
                                 ![htlcs[id].Sender] = @ + htlcs[id].Amount]
         /\ call' = c
         /\ err' = "ok"
         /\ UNCHANGED nextHTLCId

(***************************************************************************)
(* The two legs of a swap: one Escrow on the EVM chain, the keeper's HTLCs *)
(* on the Cosmos chain                                                     *)
(***************************************************************************)
\* the hash locks offered to CreateHTLC: the Escrow's secret hash (the paired
\* leg), the SHA-256 digest of a secret, and one of the wrong length
HashLocks ==
    {[len |-> Sha256Size, digest |-> escrowInfo.secretHash],
     sha256Sum256(0),
     [len |-> Sha256Size - 1, digest |-> 0]}
HTLCIds == 1 .. (MaxHTLCs + 1)

Init ==
    /\ now = 0
    /\ \E p \in BOOLEAN :
          escrowInfo = EscrowInfo("maker", "taker", keccak256(0), MaxTime - 1, MaxAmount, p, 1)
    /\ balance = 0
    /\ paid = [a \in {"maker", "taker"} |-> 0]
    /\ htlcs = <<>>
    /\ nextHTLCId = 1
    /\ bank = [a \in Accounts \cup {ModuleName} |-> IF a = "maker" THEN MaxAmount ELSE 0]
    /\ call = [op |-> "constructor"]
    /\ err = "ok"
    /\ NoQuote /\ NoManager /\ NoCoordinator /\ NoShutdown /\ NoPartial /\ NoTasks /\ NoHandler

EscrowCall ==
    /\ \/ \E s \in Parties, v \in {MaxAmount} : depositETH(s, v)
       \/ \E s \in Parties, x \in Secrets : withdraw(s, x, TRUE)
       \/ \E s \in Parties, x \in Secrets, v \in 1 .. MaxAmount : partialWithdraw(s, x, v, TRUE)
       \/ \E s \in Parties : cancel(s, TRUE)
       \/ \E s \in Parties, h \in TxHashes, b \in BlockHeights : confirmSourceEscrow(s, h, b)
    /\ UNCHANGED <<now, htlcs, nextHTLCId, bank, quote, managerVars, coordinatorVars,
                   shutdownVars, partialVars, taskVars, handlerVars>>

KeeperCall ==
    /\ \/ /\ nextHTLCId <= MaxHTLCs
          /\ \E s \in Parties, h \in HashLocks, t \in {0, MaxTime} :
                CreateHTLC(s, "taker", MaxAmount, h, t)
       \/ \E id \in HTLCIds, x \in Secrets, c \in Parties : ClaimHTLC(id, x, c)
       \/ \E id \in HTLCIds, r \in Parties : RefundHTLC(id, r)
    /\ UNCHANGED <<now, escrowInfo, balance, paid, quote, managerVars, coordinatorVars,
                   shutdownVars, partialVars, taskVars, handlerVars>>

Next ==
    \/ EscrowCall
    \/ KeeperCall
    \/ Tick

Spec == Init /\ [][Next]_vars

(***************************************************************************)
(* The keeper alone: several HTLCs between the three accounts              *)
(***************************************************************************)
\* the time locks offered to CreateHTLC: past, next block, later
TimeLocks == {0, 1, MaxTime}

InitKeeper ==
    /\ now = 0
    /\ escrowInfo = EscrowInfo("maker", "taker", keccak256(0), MaxTime - 1, MaxAmount, FALSE, 1)
    /\ balance = 0
    /\ paid = [a \in {"maker", "taker"} |-> 0]
    /\ htlcs = <<>>
    /\ nextHTLCId = 1
    /\ bank = [a \in Accounts \cup {ModuleName} |-> IF a \in Parties THEN MaxAmount - 1 ELSE 0]
    /\ call = [op |-> "constructor"]
    /\ err = "ok"
    /\ NoQuote /\ NoManager /\ NoCoordinator /\ NoShutdown /\ NoPartial /\ NoTasks /\ NoHandler

KeeperCreateHTLC ==
    /\ nextHTLCId <= MaxCreates
    /\ \E s \in Parties, a \in {1, MaxAmount - 1}, h \in HashLocks, t \in TimeLocks :
          \E r \in Parties \ {s} : CreateHTLC(s, r, a, h, t)
    /\ UNCHANGED <<now, escrowInfo, balance, paid, quote, managerVars, coordinatorVars,
                   shutdownVars, partialVars, taskVars, handlerVars>>

KeeperClaimHTLC ==
    /\ \E id \in 1 .. (MaxCreates + 1), x \in Secrets, c \in Accounts : ClaimHTLC(id, x, c)
    /\ UNCHANGED <<now, escrowInfo, balance, paid, quote, managerVars, coordinatorVars,
                   shutdownVars, partialVars, taskVars, handlerVars>>

KeeperRefundHTLC ==
    /\ \E id \in 1 .. (MaxCreates + 1), r \in Accounts : RefundHTLC(id, r)
    /\ UNCHANGED <<now, escrowInfo, balance, paid, quote, managerVars, coordinatorVars,
                   shutdownVars, partialVars, taskVars, handlerVars>>

NextKeeper ==
    \/ KeeperCreateHTLC
    \/ KeeperClaimHTLC
    \/ KeeperRefundHTLC
    \/ Tick

SpecKeeper == InitKeeper /\ [][NextKeeper]_vars

(***************************************************************************)
(* Auction pricing: relayer/pkg/order_manager/manager.go,                  *)
(* evm/contracts/escrow/DutchAuctionManager.sol, evm/contracts/            *)
(* DutchAuction.sol                                                        *)
(*                                                                         *)
(* The relayer's clock (time.Time, time.Duration) is finer than a second:  *)
(* it counts ticks, TicksPerSecond to a second.  The chains count seconds. *)
(* Prices stay far below 2^256, so the checked uint256 arithmetic of the   *)
(* contracts can only fail by underflow.                                   *)
(***************************************************************************)
Prices == 0 .. MaxPrice
Durations == 1 .. MaxDuration
Bytes32Zero == 0

\* time.Unix(sec, 0) and d * time.Second, in ticks
timeUnix(sec) == sec * TicksPerSecond
\* int64(d.Seconds()): the whole seconds of a non-negative duration
Seconds(d) == d \div TicksPerSecond
\* the block timestamp of the block current at a relayer instant
BlockTimestamp(t) == t \div TicksPerSecond

\* seeded fault: the relayer's price without the floor at MinimumPrice
calculateDutchAuctionPriceNoFloor(params, currentTime) ==
    LET elapsed == currentTime - params.StartTime
        elapsedSeconds == Seconds(elapsed)
        decay == params.DecayRate * elapsedSeconds
    IN IF elapsed < 0 THEN params.InitialPrice
       ELSE IF elapsed > params.Duration THEN params.MinimumPrice
       ELSE params.InitialPrice - decay

calculateDutchAuctionPrice(params, currentTime) ==
    LET elapsed == currentTime - params.StartTime
        elapsedSeconds == Seconds(elapsed)
        decay == params.DecayRate * elapsedSeconds
        currentPrice == params.InitialPrice - decay
    IN IF elapsed < 0 THEN params.InitialPrice
       ELSE IF elapsed > params.Duration THEN params.MinimumPrice
       ELSE IF currentPrice < params.MinimumPrice THEN params.MinimumPrice
       ELSE currentPrice

\* the result of a view call: a price, or a revert
Price(p) == [reverted |-> FALSE, price |-> p]
Revert == [reverted |-> TRUE, price |-> 0]

\* the Auction startAuction stores
Auction(orderId, startPrice, endPrice, duration, timestamp) ==
    [orderId |-> orderId,
     params |-> [startPrice |-> startPrice,
                 endPrice |-> endPrice,
                 startTime |-> timestamp,
                 duration |-> duration,
                 priceDecayRate |-> (startPrice - endPrice) \div duration],
     isActive |-> TRUE,
     winner |-> AddressZero,
     winningPrice |-> 0,
     endTime |-> timestamp + duration]

\* DutchAuctionManager.getCurrentPrice on a stored auction at a block timestamp
DutchAuctionManager_getCurrentPrice(auction, timestamp) ==
    LET timeElapsed == timestamp - auction.params.startTime
        priceDecrease == auction.params.priceDecayRate * timeElapsed
    IN IF auction.orderId = Bytes32Zero THEN Revert
       ELSE IF ~auction.isActive THEN Price(auction.winningPrice)
       ELSE IF timeElapsed < 0 THEN Revert
       ELSE IF timeElapsed >= auction.params.duration THEN Price(auction.params.endPrice)
       ELSE Price(auction.params.startPrice - priceDecrease)

\* the Order DutchAuction.createOrder stores
Order(maker, startPrice, endPrice, duration, timestamp) ==
    [maker |-> maker,
     startPrice |-> startPrice,
     endPrice |-> endPrice,
     duration |-> duration,
     startTime |-> timestamp,
     resolver |-> AddressZero,
     claimed |-> FALSE,
     active |-> TRUE]

\* DutchAuction.getCurrentPrice on a stored order at a block timestamp
DutchAuction_getCurrentPrice(order, timestamp) ==
    LET elapsed == timestamp - order.startTime
        priceDiff == order.startPrice - order.endPrice
        priceDecay == (priceDiff * elapsed) \div order.duration
    IN IF ~order.active THEN Revert
       ELSE IF elapsed < 0 THEN Revert
       ELSE IF elapsed >= order.duration THEN Price(order.endPrice)
       ELSE Price(order.startPrice - priceDecay)

(***************************************************************************)
(* The three price functions side by side: one auction (prices, start      *)
(* second, duration in seconds, and the decay rate handed to the relayer)  *)
(* is fixed at the start and then quoted at instant after instant.         *)
(***************************************************************************)
StartTimes == {0, 1}
Instants == 0 .. ((MaxDuration + 2) * TicksPerSecond)

\* the relayer's parameters of the quoted auction
QuoteParams ==
    [InitialPrice |-> quote.startPrice,
     MinimumPrice |-> quote.endPrice,
     DecayRate |-> quote.decayRate,
     StartTime |-> timeUnix(quote.startTime),
     Duration |-> quote.duration * TicksPerSecond]

InitPrice ==
    /\ \E s \in Prices, e \in Prices, st \in StartTimes, d \in Durations, r \in Prices :
          /\ s > e
          /\ quote = [startPrice |-> s, endPrice |-> e, startTime |-> st,
                      duration |-> d, decayRate |-> r,
                      quoted |-> FALSE, t |-> 0,
                      relayer |-> 0, manager |-> Revert, auction |-> Revert]
    /\ now = 0
    /\ escrowInfo = <<>> /\ balance = 0 /\ paid = <<>>
    /\ htlcs = <<>> /\ nextHTLCId = 1 /\ bank = <<>>
    /\ call = [op |-> "constructor"]
    /\ err = "ok"
    /\ NoManager /\ NoCoordinator /\ NoShutdown /\ NoPartial /\ NoTasks /\ NoHandler

Quote ==
    /\ \E t \in Instants :
          quote' = [quote EXCEPT
              !.quoted = TRUE,
              !.t = t,
              !.relayer = calculateDutchAuctionPrice(QuoteParams, t),
              !.manager = DutchAuctionManager_getCurrentPrice(
                              Auction(1, quote.startPrice, quote.endPrice,
                                      quote.duration, quote.startTime),
                              BlockTimestamp(t)),
              !.auction = DutchAuction_getCurrentPrice(
                              Order("maker", quote.startPrice, quote.endPrice,
                                    quote.duration, quote.startTime),
                              BlockTimestamp(t))]
    /\ UNCHANGED <<now, escrowVars, keeperVars, call, err, managerVars,
                   coordinatorVars, shutdownVars, partialVars, taskVars, handlerVars>>

NextPrice == Quote

SpecPrice == InitPrice /\ [][NextPrice]_vars

(***************************************************************************)
(* evm/contracts/escrow/DutchAuctionManager.sol: one contract, its owner,  *)
(* the bidders and the block timestamp                                     *)
(***************************************************************************)
Owner == "owner"
ManagerCallers == {Owner, "taker", "other"}
BidderAddresses == {AddressZero, "taker", "other"}
OrderIds == {Bytes32Zero, 1}

\* an entry of the auctions mapping that was never written
ZeroAuction ==
    [orderId |-> Bytes32Zero,
     params |-> [startPrice |-> 0, endPrice |-> 0, startTime |-> 0,
                 duration |-> 0, priceDecayRate |-> 0],
     isActive |-> FALSE,
     winner |-> AddressZero,
     winningPrice |-> 0,
     endTime |-> 0]

onlyOwner(sender) ==
    IF sender # Owner THEN "Ownable: caller is not the owner" ELSE "ok"

onlyAuthorizedBidder(sender) ==
    IF sender \notin authorizedBidders THEN "DutchAuctionManager: Unauthorized bidder"
    ELSE "ok"

activeAuction(orderId) ==
    IF ~auctions[orderId].isActive THEN "DutchAuctionManager: Auction not active"
    ELSE IF now > auctions[orderId].endTime THEN "DutchAuctionManager: Auction expired"
    ELSE "ok"

ManagerReverted(c, e) ==
    /\ call' = c
    /\ err' = e
    /\ UNCHANGED managerVars

startAuctionCheck(sender, orderId, startPrice, endPrice, duration) ==
    FirstError(<<onlyOwner(sender),
                 IF auctions[orderId].orderId # Bytes32Zero
                     THEN "DutchAuctionManager: Auction already exists" ELSE "ok",
                 IF ~(startPrice > endPrice)
                     THEN "DutchAuctionManager: Invalid price range" ELSE "ok",
                 IF ~(duration > 0)
                     THEN "DutchAuctionManager: Invalid duration" ELSE "ok">>)

startAuction(sender, orderId, startPrice, endPrice, duration) ==
    LET e == startAuctionCheck(sender, orderId, startPrice, endPrice, duration)
        c == [op |-> "startAuction", sender |-> sender, orderId |-> orderId]
    IN
    IF e # "ok" THEN ManagerReverted(c, e)
    ELSE /\ auctions' = [auctions EXCEPT
                ![orderId] = Auction(orderId, startPrice, endPrice, duration, now)]
         /\ call' = c
         /\ err' = "ok"
         /\ UNCHANGED authorizedBidders

placeBidCheck(sender, orderId) ==
    FirstError(<<onlyAuthorizedBidder(sender),
                 activeAuction(orderId),
                 IF DutchAuctionManager_getCurrentPrice(auctions[orderId], now).reverted
                     THEN "DutchAuctionManager: Auction does not exist" ELSE "ok">>)

\* seeded fault: the accepted bid is recorded but the auction stays active
BidAcceptedStaysActive(auction, sender, currentPrice) ==
    [auction EXCEPT !.winner = sender,
                    !.winningPrice = currentPrice]

\* the auction after placeBid has accepted the sender's bid
BidAccepted(auction, sender, currentPrice) ==
    [auction EXCEPT !.isActive = FALSE,
                    !.winner = sender,
                    !.winningPrice = currentPrice]

placeBid(sender, orderId) ==
    LET e == placeBidCheck(sender, orderId)
        c == [op |-> "placeBid", sender |-> sender, orderId |-> orderId]
        currentPrice == DutchAuctionManager_getCurrentPrice(auctions[orderId], now).price
    IN
    IF e # "ok" THEN ManagerReverted(c, e)
    ELSE /\ auctions' = [auctions EXCEPT
                ![orderId] = BidAccepted(auctions[orderId], sender, currentPrice)]
         /\ call' = c
         /\ err' = "ok"
         /\ UNCHANGED authorizedBidders

authorizeBidderCheck(sender, bidder) ==
    FirstError(<<onlyOwner(sender),
                 IF bidder = AddressZero
                     THEN "DutchAuctionManager: Invalid bidder address" ELSE "ok">>)

authorizeBidder(sender, bidder) ==
    LET e == authorizeBidderCheck(sender, bidder)
        c == [op |-> "authorizeBidder", sender |-> sender, orderId |-> Bytes32Zero]
    IN
    IF e # "ok" THEN ManagerReverted(c, e)
    ELSE /\ authorizedBidders' = authorizedBidders \cup {bidder}
         /\ call' = c
         /\ err' = "ok"
         /\ UNCHANGED auctions

revokeBidder(sender, bidder) ==
    LET e == onlyOwner(sender)
        c == [op |-> "revokeBidder", sender |-> sender, orderId |-> Bytes32Zero]
    IN
    IF e # "ok" THEN ManagerReverted(c, e)
    ELSE /\ authorizedBidders' = authorizedBidders \ {bidder}
         /\ call' = c
         /\ err' = "ok"
         /\ UNCHANGED auctions

InitManager ==
    /\ now = 0
    /\ auctions = [o \in OrderIds |-> ZeroAuction]
    /\ authorizedBidders = {}
    /\ escrowInfo = <<>> /\ balance = 0 /\ paid = <<>>
    /\ htlcs = <<>> /\ nextHTLCId = 1 /\ bank = <<>>
    /\ call = [op |-> "constructor"]
    /\ err = "ok"
    /\ NoQuote /\ NoCoordinator /\ NoShutdown /\ NoPartial /\ NoTasks /\ NoHandler

\* the owner starts auctions from MaxPrice down to 0 over MaxTime seconds;
\* the other arguments are the ones startAuction refuses
StartAuction ==
    /\ \E s \in ManagerCallers, o \in OrderIds,
          e \in {0, MaxPrice}, d \in {0, MaxTime} :
          startAuction(s, o, MaxPrice, e, d)
    /\ UNCHANGED <<now, escrowVars, keeperVars, quote, coordinatorVars, shutdownVars,
                   partialVars, taskVars, handlerVars>>

PlaceBid ==
    /\ \E s \in ManagerCallers, o \in OrderIds : placeBid(s, o)
    /\ UNCHANGED <<now, escrowVars, keeperVars, quote, coordinatorVars, shutdownVars,
                   partialVars, taskVars, handlerVars>>

AuthorizeBidder ==
    /\ \E s \in ManagerCallers, b \in BidderAddresses : authorizeBidder(s, b)
    /\ UNCHANGED <<now, escrowVars, keeperVars, quote, coordinatorVars, shutdownVars,
                   partialVars, taskVars, handlerVars>>

RevokeBidder ==
    /\ \E s \in ManagerCallers, b \in BidderAddresses : revokeBidder(s, b)
    /\ UNCHANGED <<now, escrowVars, keeperVars, quote, coordinatorVars, shutdownVars,
                   partialVars, taskVars, handlerVars>>

NextManager ==
    \/ StartAuction
    \/ PlaceBid
    \/ AuthorizeBidder
    \/ RevokeBidder
    \/ Tick

SpecManager == InitManager /\ [][NextManager]_vars

(***************************************************************************)
(* The relayer: RelayerService (the scans and the matching of its main     *)
(* package) and OrderManager (relayer/pkg/order_manager/manager.go)        *)
(*                                                                         *)
(* Each chain produces one block a second.  The Cronos factory lists one   *)
(* source escrow with a Dutch auction, the Ethereum factory has logged one *)
(* EscrowCreated event.  Nothing in the repository sends on                *)
(* updateOrdersChan, so processOrderUpdates never receives an order and    *)
(* takes no step.                                                          *)
(***************************************************************************)
OrderTypeCronosToEthereum == "cronos_to_ethereum"
OrderTypeEthereumToCronos == "ethereum_to_cronos"

OrderStatusPending == "pending"
OrderStatusActive == "active"
OrderStatusMatched == "matched"
OrderStatusCompleted == "completed"
OrderStatusCancelled == "cancelled"
OrderStatusExpired == "expired"
OrderStatusFailed == "failed"

\* a nil pointer
Nil == [nil |-> TRUE]

\* decimal text: the empty string, or the digits of a number
EmptyString == <<>>
Dec(n) == <<n>>
\* new(big.Int).SetString(s, 10)
SetString(s) ==
    IF s = EmptyString THEN [value |-> 0, ok |-> FALSE]
    ELSE [value |-> s[1], ok |-> TRUE]

\* config.DutchAuction.MaxAuctionDuration
MaxAuctionDuration == MaxDuration * TicksPerSecond

\* time.Now()
timeNow == timeUnix(now)

\* GetLatestBlock of either chain
GetLatestBlock == now + 1

\* cronosClient.GetEscrowOrders(factory, "", 50): the first escrows of the
\* factory's list, whatever was listed before
CronosEscrowOrders ==
    <<[ID |-> "salt1",
       Status |-> "Active",
       Timelock |-> 1,
       CreatedAt |-> 0,
       InitialPrice |-> Dec(MaxPrice),
       PriceDecayRate |-> Dec(1),
       MinimumPrice |-> Dec(0)]>>

\* the EscrowCreated logs of the Ethereum factory, with the block of each
EscrowCreatedLogs ==
    <<[block |-> 1,
       order |-> [ID |-> "0xtx1",
                  Status |-> "Active",
                  Timelock |-> MaxTime,
                  CreatedAt |-> 0,
                  EscrowAddress |-> "0xescrow1"]]>>

\* ethereumClient.GetEscrowOrders(factory, fromBlock): FilterLogs from
\* fromBlock, that block included, to the latest block
EthereumEscrowOrders(fromBlock) ==
    LET RECURSIVE From(_)
        From(logs) ==
            IF logs = <<>> THEN <<>>
            ELSE IF Head(logs).block >= fromBlock /\ Head(logs).block <= GetLatestBlock
                 THEN <<Head(logs).order>> \o From(Tail(logs))
                 ELSE From(Tail(logs))
    IN From(EscrowCreatedLogs)

\* the transaction hash a ledger returns for the n-th command sent
TxHash(n) == <<"0x", n>>

\* Orders are shared by pointer: ptr is the address of a stored Order (0 for an
\* Order that only newOrdersChan refers to).  Pointers are the addresses in use.
Pointers == {activeOrders[id].ptr : id \in DOMAIN activeOrders} \cup DOMAIN detached

\* &Order{...}: the lowest free address
NewPointer ==
    CHOOSE p \in 1 .. (Cardinality(Pointers) + 1) :
        p \notin Pointers /\ \A q \in 1 .. (p - 1) : q \in Pointers

\* every Order that can be reached, by address
Heap ==
    [p \in Pointers |->
        IF p \in DOMAIN detached THEN detached[p]
        ELSE LET id == CHOOSE id \in DOMAIN activeOrders : activeOrders[id].ptr = p
             IN activeOrders[id]]

\* the Orders of heap that are outside store and that a channel points to
Detached(heap, store, updates, completed) ==
    LET kept == {p \in DOMAIN heap :
                    /\ \A id \in DOMAIN store : store[id].ptr # p
                    /\ \/ \E i \in DOMAIN updates : updates[i] = p
                       \/ \E i \in DOMAIN completed : completed[i] = p}
    IN [p \in kept |-> heap[p]]

convertCronosOrderToOrder(cronosOrder) ==
    LET order == [ID |-> cronosOrder.ID,
                  ptr |-> 0,
                  Type |-> OrderTypeCronosToEthereum,
                  Status |-> cronosOrder.Status,
                  Secret |-> "",
                  SourceEscrowAddr |-> "",
                  DestEscrowAddr |-> "",
                  DutchAuction |-> Nil,
                  CurrentPrice |-> Nil,
                  PartialFill |-> Nil,
                  ExpiresAt |-> timeUnix(cronosOrder.Timelock),
                  SourceTxHash |-> EmptyString,
                  DestTxHash |-> EmptyString,
                  RetryCount |-> 0,
                  LastError |-> ""]
        initialPrice == SetString(cronosOrder.InitialPrice)
        minPrice == SetString(cronosOrder.MinimumPrice)
        decayRate == SetString(cronosOrder.PriceDecayRate)
    IN IF cronosOrder.InitialPrice # EmptyString /\ initialPrice.ok
       THEN [order EXCEPT
                !.DutchAuction =
                    [InitialPrice |-> initialPrice.value,
                     StartTime |-> timeUnix(cronosOrder.CreatedAt),
                     Duration |-> MaxAuctionDuration,
                     MinimumPrice |-> IF minPrice.ok THEN minPrice.value ELSE Nil,
                     DecayRate |-> IF decayRate.ok THEN decayRate.value ELSE Nil],
                !.CurrentPrice = initialPrice.value]
       ELSE order

convertEthereumOrderToOrder(ethOrder) ==
    [ID |-> ethOrder.ID,
     ptr |-> 0,
     Type |-> OrderTypeEthereumToCronos,
     Status |-> ethOrder.Status,
     Secret |-> "",
     SourceEscrowAddr |-> ethOrder.EscrowAddress,
     DestEscrowAddr |-> "",
     DutchAuction |-> Nil,
     CurrentPrice |-> Nil,
     PartialFill |-> Nil,
     ExpiresAt |-> timeUnix(ethOrder.Timelock),
     SourceTxHash |-> EmptyString,
     DestTxHash |-> EmptyString,
     RetryCount |-> 0,
     LastError |-> ""]

\* AddOrder: a send that drops the order when the channel is full
AddOrder(chan, order) ==
    IF Len(chan) < NewOrdersChanCap THEN Append(chan, order) ELSE chan

RECURSIVE AddOrders(_, _)
AddOrders(chan, orders) ==
    IF orders = <<>> THEN chan
    ELSE AddOrders(AddOrder(chan, Head(orders)), Tail(orders))

scanCronosOrders ==
    /\ GetLatestBlock > lastCronosBlock
    /\ newOrdersChan' =
          LET orders == CronosEscrowOrders IN
          AddOrders(newOrdersChan,
                    [i \in DOMAIN orders |-> convertCronosOrderToOrder(orders[i])])
    /\ lastCronosBlock' = GetLatestBlock
    /\ call' = [op |-> "scanCronosOrders"]
    /\ err' = "ok"
    /\ UNCHANGED <<activeOrders, lastEthereumBlock, commands, updateVars>>

scanEthereumOrders ==
    /\ GetLatestBlock > lastEthereumBlock
    /\ newOrdersChan' =
          LET orders == EthereumEscrowOrders(lastEthereumBlock) IN
          AddOrders(newOrdersChan,
                    [i \in DOMAIN orders |-> convertEthereumOrderToOrder(orders[i])])
    /\ lastEthereumBlock' = GetLatestBlock
    /\ call' = [op |-> "scanEthereumOrders"]
    /\ err' = "ok"
    /\ UNCHANGED <<activeOrders, lastCronosBlock, commands, updateVars>>

\* the command handleNewOrder sends for an order, none for an unknown type
CreateDestinationEscrow(order, created) ==
    IF order.Type \in {OrderTypeCronosToEthereum, OrderTypeEthereumToCronos}
    THEN <<[op |-> "CreateDestinationEscrow", id |-> order.ID, ok |-> created]>>
    ELSE <<>>

\* handleNewOrder: the destination escrow is created, or the chain call fails
handleNewOrder(order, created) ==
    IF order.Type \notin {OrderTypeCronosToEthereum, OrderTypeEthereumToCronos}
    THEN [order EXCEPT !.Status = OrderStatusFailed,
                       !.LastError = "unknown order type"]
    ELSE IF created
    THEN [order EXCEPT !.DestTxHash = TxHash(Len(commands) + 1),
                       !.Status = OrderStatusActive]
    ELSE [order EXCEPT !.Status = OrderStatusFailed,
                       !.LastError = "failed to create destination escrow"]

\* one round of the processNewOrders loop
processNewOrders ==
    /\ newOrdersChan # <<>>
    /\ \E created \in BOOLEAN :
          LET received == Head(newOrdersChan)
              order == [handleNewOrder(received, created) EXCEPT !.ptr = NewPointer]
              store == [id \in DOMAIN activeOrders \cup {order.ID} |->
                           IF id = order.ID THEN order ELSE activeOrders[id]]
          IN /\ activeOrders' = store
             /\ commands' = commands \o CreateDestinationEscrow(received, created)
             /\ detached' = Detached(Heap, store, updateOrdersChan, completedOrders)
    /\ newOrdersChan' = Tail(newOrdersChan)
    /\ call' = [op |-> "processNewOrders"]
    /\ err' = "ok"
    /\ UNCHANGED <<lastCronosBlock, lastEthereumBlock, updateOrdersChan,
                   completedOrders, ledger, matchedLog>>

checkOrderTimeoutsLate ==
    /\ activeOrders' = [id \in DOMAIN activeOrders |->
          IF timeNow > activeOrders[id].ExpiresAt + TicksPerSecond
          THEN [activeOrders[id] EXCEPT !.Status = OrderStatusExpired]
          ELSE activeOrders[id]]
    /\ call' = [op |-> "checkOrderTimeouts"]
    /\ err' = "ok"
    /\ UNCHANGED <<newOrdersChan, lastCronosBlock, lastEthereumBlock, commands,
                   updateVars>>

checkOrderTimeouts ==
    /\ activeOrders' = [id \in DOMAIN activeOrders |->
          IF timeNow > activeOrders[id].ExpiresAt
          THEN [activeOrders[id] EXCEPT !.Status = OrderStatusExpired]
          ELSE activeOrders[id]]
    /\ call' = [op |-> "checkOrderTimeouts"]
    /\ err' = "ok"
    /\ UNCHANGED <<newOrdersChan, lastCronosBlock, lastEthereumBlock, commands,
                   updateVars>>

canExecuteOrder(order) ==
    order.SourceEscrowAddr # "" /\ order.DestEscrowAddr # ""

matchOrders ==
    /\ activeOrders' = [id \in DOMAIN activeOrders |->
          IF activeOrders[id].Status = OrderStatusActive /\ canExecuteOrder(activeOrders[id])
          THEN [activeOrders[id] EXCEPT !.Status = OrderStatusMatched]
          ELSE activeOrders[id]]
    /\ matchedLog' =
          LET matched == {id \in DOMAIN activeOrders :
                            /\ activeOrders[id].Status = OrderStatusActive
                            /\ canExecuteOrder(activeOrders[id])}
          IN [id \in DOMAIN matchedLog \cup matched |->
                 (IF id \in DOMAIN matchedLog THEN matchedLog[id] ELSE 0)
                 + (IF id \in matched THEN 1 ELSE 0)]
    /\ call' = [op |-> "matchOrders"]
    /\ err' = "ok"
    /\ UNCHANGED <<newOrdersChan, lastCronosBlock, lastEthereumBlock, commands,
                   updateOrdersChan, completedOrders, detached, ledger>>

updateDutchAuctionOrderPrices ==
    /\ activeOrders' = [id \in DOMAIN activeOrders |->
          IF activeOrders[id].DutchAuction # Nil
          THEN [activeOrders[id] EXCEPT
                   !.CurrentPrice =
                       calculateDutchAuctionPrice(activeOrders[id].DutchAuction, timeNow)]
          ELSE activeOrders[id]]
    /\ call' = [op |-> "updateDutchAuctionOrderPrices"]
    /\ err' = "ok"
    /\ UNCHANGED <<newOrdersChan, lastCronosBlock, lastEthereumBlock, commands,
                   updateVars>>

InitCoordinator ==
    /\ now = 0
    /\ escrowInfo = <<>> /\ balance = 0 /\ paid = <<>>
    /\ htlcs = <<>> /\ nextHTLCId = 1 /\ bank = <<>>
    /\ call = [op |-> "NewOrderManager"]
    /\ err = "ok"
    /\ NoQuote /\ NoManager /\ NoCoordinator /\ NoShutdown /\ NoPartial /\ NoTasks /\ NoHandler

ScanCronosOrders ==
    /\ scanCronosOrders
    /\ UNCHANGED <<now, escrowVars, keeperVars, quote, managerVars, shutdownVars,
                   partialVars, taskVars, handlerVars>>

ScanEthereumOrders ==
    /\ scanEthereumOrders
    /\ UNCHANGED <<now, escrowVars, keeperVars, quote, managerVars, shutdownVars,
                   partialVars, taskVars, handlerVars>>

ProcessNewOrders ==
    /\ processNewOrders
    /\ UNCHANGED <<now, escrowVars, keeperVars, quote, managerVars, shutdownVars,
                   partialVars, taskVars, handlerVars>>

CheckOrderTimeouts ==
    /\ checkOrderTimeouts
    /\ UNCHANGED <<now, escrowVars, keeperVars, quote, managerVars, shutdownVars,
                   partialVars, taskVars, handlerVars>>

MatchOrders ==
    /\ matchOrders
    /\ UNCHANGED <<now, escrowVars, keeperVars, quote, managerVars, shutdownVars,
                   partialVars, taskVars, handlerVars>>

UpdateDutchAuctionOrderPrices ==
    /\ updateDutchAuctionOrderPrices
    /\ UNCHANGED <<now, escrowVars, keeperVars, quote, managerVars, shutdownVars,
                   partialVars, taskVars, handlerVars>>

NextCoordinator ==
    \/ ScanCronosOrders
    \/ ScanEthereumOrders
    \/ ProcessNewOrders
    \/ CheckOrderTimeouts
    \/ MatchOrders
    \/ UpdateDutchAuctionOrderPrices
    \/ Tick

SpecCoordinator == InitCoordinator /\ [][NextCoordinator]_vars

(***************************************************************************)
(* OrderManager's update path: processOrderUpdates, handleOrderUpdate and  *)
(* executeSwap, with matchOrders and the timeout sweep.                    *)
(*                                                                         *)
(* AddOrder is exported: a client hands it an Order whose fields it chose, *)
(* here one order "o1".  The ledger holds what is true of the two escrows  *)
(* of that order.  The orders on updateOrdersChan are pointers to stored   *)
(* Orders, enqueued by the reconciliation of the specification.            *)
(***************************************************************************)
CompletedOrdersCap == 100

\* the orders a client hands to AddOrder
ClientOrders ==
    {[ID |-> "o1",
      ptr |-> 0,
      Type |-> type,
      Status |-> OrderStatusPending,
      Secret |-> secret,
      SourceEscrowAddr |-> "0xsrc",
      DestEscrowAddr |-> dest,
      DutchAuction |-> Nil,
      CurrentPrice |-> Nil,
      PartialFill |-> IF type = OrderTypeCronosToEthereum
                      THEN [AllowPartialFill |-> TRUE, FilledAmount |-> 1]
                      ELSE Nil,
      ExpiresAt |-> timeUnix(1),
      SourceTxHash |-> EmptyString,
      DestTxHash |-> EmptyString,
      RetryCount |-> 0,
      LastError |-> ""] :
        type \in {OrderTypeCronosToEthereum, OrderTypeEthereumToCronos},
        secret \in {"", "s1"},
        dest \in {"", "0xdest"}}

\* the command executeSwap sends to the source ledger
SourceWithdraw(order, sent) ==
    [op |-> IF /\ order.Type = OrderTypeCronosToEthereum
               /\ order.PartialFill # Nil
               /\ order.PartialFill.AllowPartialFill
            THEN "PartialWithdrawFromEscrow"
            ELSE "WithdrawFromEscrow",
     id |-> order.ID,
     ok |-> sent]

\* executeSwap: the Order after the call, the error, the commands sent
executeSwap(order, sent) ==
    IF order.Secret = ""
    THEN [order |-> order, err |-> "secret not available", commands |-> <<>>]
    ELSE IF ~sent
    THEN [order |-> order,
          err |-> "failed to withdraw from source escrow",
          commands |-> <<SourceWithdraw(order, sent)>>]
    ELSE [order |-> [order EXCEPT !.SourceTxHash = TxHash(Len(commands) + 1),
                                  !.Status = OrderStatusCompleted],
          err |-> "ok",
          commands |-> <<SourceWithdraw(order, sent)>>]

checkForMatches(order) ==
    [order |-> order, err |-> "ok", commands |-> <<>>]

handleOrderUpdate(order, sent) ==
    IF order.Status = OrderStatusMatched THEN executeSwap(order, sent)
    ELSE IF order.Status = OrderStatusActive THEN checkForMatches(order)
    ELSE [order |-> order, err |-> "ok", commands |-> <<>>]

\* the source ledger accepts a withdraw of a funded escrow, once
SourceAccepts == ledger.funded /\ ~ledger.sourceWithdrawn

\* one round of the processOrderUpdates loop
processOrderUpdates ==
    /\ updateOrdersChan # <<>>
    /\ \E sent \in {s \in BOOLEAN : s => SourceAccepts} :
          LET p == Head(updateOrdersChan)
              handled == handleOrderUpdate(Heap[p], sent)
              order == IF handled.err # "ok"
                       THEN [handled.order EXCEPT !.RetryCount = @ + 1,
                                                  !.LastError = handled.err]
                       ELSE handled.order
              remove == order.Status \in {OrderStatusCompleted,
                                          OrderStatusCancelled,
                                          OrderStatusExpired}
              heap == [Heap EXCEPT ![p] = order]
              store == [id \in IF remove THEN DOMAIN activeOrders \ {order.ID}
                                         ELSE DOMAIN activeOrders |->
                           heap[activeOrders[id].ptr]]
              completed == IF remove /\ Len(completedOrders) < CompletedOrdersCap
                           THEN Append(completedOrders, p)
                           ELSE completedOrders
          IN /\ activeOrders' = store
             /\ completedOrders' = completed
             /\ detached' = Detached(heap, store, Tail(updateOrdersChan), completed)
             /\ commands' = commands \o handled.commands
             /\ ledger' = IF handled.commands # <<>> /\ sent
                          THEN [ledger EXCEPT !.sourceWithdrawn = TRUE]
                          ELSE ledger
             /\ err' = handled.err
    /\ updateOrdersChan' = Tail(updateOrdersChan)
    /\ call' = [op |-> "processOrderUpdates"]
    /\ UNCHANGED <<newOrdersChan, lastCronosBlock, lastEthereumBlock, matchedLog>>

\* the number of commands op sent for the order id
Sent(op, id) ==
    Cardinality({i \in DOMAIN commands : commands[i].op = op /\ commands[i].id = id})

InitUpdates ==
    /\ now = 0
    /\ escrowInfo = <<>> /\ balance = 0 /\ paid = <<>>
    /\ htlcs = <<>> /\ nextHTLCId = 1 /\ bank = <<>>
    /\ call = [op |-> "NewOrderManager"]
    /\ err = "ok"
    /\ NoQuote /\ NoManager /\ NoShutdown /\ NoPartial /\ NoTasks /\ NoHandler
    /\ activeOrders = <<>> /\ newOrdersChan = <<>>
    /\ lastCronosBlock = 0 /\ lastEthereumBlock = 0
    /\ updateOrdersChan = <<>> /\ completedOrders = <<>> /\ detached = <<>>
    /\ commands = <<>> /\ matchedLog = <<>>
    /\ \E funded \in BOOLEAN :
          ledger = [funded |-> funded,
                    sourceWithdrawn |-> FALSE,
                    destWithdrawn |-> FALSE]

\* a client calls AddOrder
ClientAddOrder ==
    /\ \E order \in ClientOrders :
          /\ Sent("CreateDestinationEscrow", order.ID) + Len(newOrdersChan) < MaxAdds
          /\ newOrdersChan' = AddOrder(newOrdersChan, order)
    /\ call' = [op |-> "AddOrder"]
    /\ err' = "ok"
    /\ UNCHANGED <<now, escrowVars, keeperVars, quote, managerVars, shutdownVars,
                   partialVars, taskVars, handlerVars>>
    /\ UNCHANGED <<activeOrders, lastCronosBlock, lastEthereumBlock, commands,
                   updateVars>>

\* reconciliation enqueues a stored order for an update
SendUpdate ==
    /\ \E id \in DOMAIN activeOrders :
          /\ Len(updateOrdersChan) < MaxUpdates
          /\ activeOrders[id].RetryCount < MaxFailures
          /\ updateOrdersChan' = Append(updateOrdersChan, activeOrders[id].ptr)
    /\ call' = [op |-> "syncOrderStates"]
    /\ err' = "ok"
    /\ UNCHANGED <<now, escrowVars, keeperVars, quote, managerVars, shutdownVars,
                   partialVars, taskVars, handlerVars>>
    /\ UNCHANGED <<activeOrders, newOrdersChan, lastCronosBlock, lastEthereumBlock,
                   commands, completedOrders, detached, ledger, matchedLog>>

ProcessOrderUpdates ==
    /\ processOrderUpdates
    /\ UNCHANGED <<now, escrowVars, keeperVars, quote, managerVars, shutdownVars,
                   partialVars, taskVars, handlerVars>>

\* the counterparty withdraws the destination escrow with the revealed secret
CounterpartyWithdraw ==
    /\ ledger.sourceWithdrawn /\ ~ledger.destWithdrawn
    /\ ledger' = [ledger EXCEPT !.destWithdrawn = TRUE]
    /\ call' = [op |-> "withdraw"]
    /\ err' = "ok"
    /\ UNCHANGED <<now, escrowVars, keeperVars, quote, managerVars, shutdownVars,
                   partialVars, taskVars, handlerVars>>
    /\ UNCHANGED <<activeOrders, newOrdersChan, lastCronosBlock, lastEthereumBlock,
                   commands, updateOrdersChan, completedOrders, detached, matchedLog>>

NextUpdates ==
    \/ ClientAddOrder
    \/ ProcessNewOrders
    \/ MatchOrders
    \/ CheckOrderTimeouts
    \/ SendUpdate
    \/ ProcessOrderUpdates
    \/ CounterpartyWithdraw
    \/ Tick

SpecUpdates == InitUpdates /\ [][NextUpdates]_vars

(***************************************************************************)
(* The partial-fill auction contract (DutchAuctionPartial of               *)
(* evm/contracts/DutchAuction.sol) with the ERC20 token it escrows.        *)
(* uint256 arithmetic is checked (solidity ^0.8): a product above MaxUint  *)
(* reverts.                                                                *)
(***************************************************************************)
MaxUint == 2 ^ UintBits - 1

PartialSenders == {"maker", "resolver"}
PartialContract == "DutchAuctionPartial"
PartialOrderIds == 0 .. MaxPartialOrders
\* a Merkle root stands for the set of secrets that are leaves of its tree
MerkleRoots == {{}, {1}}

\* orders[orderId] of an order that was never created
ZeroPartialOrder ==
    [maker |-> AddressZero,
     tokenAmount |-> 0,
     startPrice |-> 0,
     endPrice |-> 0,
     duration |-> 0,
     startTime |-> 0,
     merkleRoot |-> {},
     usedSecrets |-> {},
     active |-> FALSE,
     winner |-> AddressZero,
     claimed |-> FALSE]

\* MerkleProof.verify for the leaf of a secret
MerkleProof_verify(secret, merkleRoot) == secret \in merkleRoot

\* DutchAuctionPartial.getCurrentPrice on a stored order at a block timestamp
DutchAuctionPartial_getCurrentPrice(order, timestamp) ==
    LET elapsed == timestamp - order.startTime
        priceDiff == order.startPrice - order.endPrice
        priceDecay == (priceDiff * elapsed) \div order.duration
    IN IF ~order.active THEN Revert
       ELSE IF elapsed < 0 THEN Revert
       ELSE IF elapsed >= order.duration THEN Price(order.endPrice)
       ELSE IF priceDiff * elapsed > MaxUint THEN Revert
       ELSE Price(order.startPrice - priceDecay)

resolverAmountRoundedUp(order, currentPrice) ==
    (order.tokenAmount * currentPrice + order.startPrice - 1) \div order.startPrice

\* claimOrder: what the resolver pays the maker
resolverAmount(order, currentPrice) ==
    (order.tokenAmount * currentPrice) \div order.startPrice

PartialReverted(c, e) ==
    /\ call' = c
    /\ err' = e
    /\ UNCHANGED <<partialOrders, nextOrderId, tokenBalance>>

\* IERC20.transferFrom / transfer: enough balance, or the call fails
Transferable(balances, from, amount, message) ==
    IF balances[from] >= amount THEN "ok" ELSE message

Transfer(balances, from, to, amount) ==
    [a \in DOMAIN balances |->
        balances[a] - (IF a = from THEN amount ELSE 0)
                    + (IF a = to THEN amount ELSE 0)]

createOrderCheck(sender, tokenAmount, startPrice, endPrice, duration) ==
    FirstError(<<IF startPrice > endPrice THEN "ok"
                 ELSE "Start price must be greater than end price",
                 IF duration > 0 THEN "ok" ELSE "Duration must be > 0",
                 IF tokenAmount > 0 THEN "ok" ELSE "Token amount must be > 0",
                 Transferable(tokenBalance, sender, tokenAmount,
                              "Token transfer failed")>>)

createOrder(sender, tokenAmount, startPrice, endPrice, duration, merkleRoot) ==
    LET c == [op |-> "createOrder", sender |-> sender, orderId |-> nextOrderId,
              transfers |-> <<>>]
        e == createOrderCheck(sender, tokenAmount, startPrice, endPrice, duration)
    IN IF e # "ok" THEN PartialReverted(c, e)
       ELSE /\ nextOrderId' = nextOrderId + 1
            /\ partialOrders' =
                  [partialOrders EXCEPT ![nextOrderId] =
                      [ZeroPartialOrder EXCEPT
                          !.maker = sender,
                          !.tokenAmount = tokenAmount,
                          !.startPrice = startPrice,
                          !.endPrice = endPrice,
                          !.duration = duration,
                          !.startTime = BlockTimestamp(now),
                          !.merkleRoot = merkleRoot,
                          !.active = TRUE]]
            /\ tokenBalance' = Transfer(tokenBalance, sender, PartialContract, tokenAmount)
            /\ call' = [c EXCEPT !.transfers =
                          <<[from |-> sender, to |-> PartialContract,
                             amount |-> tokenAmount]>>]
            /\ err' = "ok"

partialFillCheck(sender, orderId, secret) ==
    LET order == partialOrders[orderId] IN
    FirstError(<<IF order.active THEN "ok" ELSE "Order not active",
                 IF secret \notin order.usedSecrets THEN "ok" ELSE "Secret already used",
                 IF MerkleProof_verify(secret, order.merkleRoot) THEN "ok"
                 ELSE "Invalid Merkle proof",
                 IF DutchAuctionPartial_getCurrentPrice(order, BlockTimestamp(now)).reverted
                 THEN "Panic" ELSE "ok">>)

partialFill(sender, orderId, secret) ==
    LET c == [op |-> "partialFill", sender |-> sender, orderId |-> orderId,
              transfers |-> <<>>]
        e == partialFillCheck(sender, orderId, secret)
    IN IF e # "ok" THEN PartialReverted(c, e)
       ELSE /\ partialOrders' =
                  [partialOrders EXCEPT ![orderId].usedSecrets = @ \cup {secret},
                                        ![orderId].winner = sender]
            /\ call' = c
            /\ err' = "ok"
            /\ UNCHANGED <<nextOrderId, tokenBalance>>

claimOrderCheck(sender, orderId) ==
    LET order == partialOrders[orderId]
        currentPrice == DutchAuctionPartial_getCurrentPrice(order, BlockTimestamp(now))
        amount == IF order.startPrice = 0 THEN 0
                  ELSE resolverAmount(order, currentPrice.price)
        afterPayment == Transfer(tokenBalance, sender, order.maker, amount)
    IN FirstError(<<IF sender = order.winner THEN "ok" ELSE "Not winner",
                    IF ~order.claimed THEN "ok" ELSE "Order already claimed",
                    IF ~order.active THEN "Order not active" ELSE "ok",
                    IF currentPrice.reverted THEN "Panic" ELSE "ok",
                    IF order.tokenAmount * currentPrice.price > MaxUint
                    THEN "Panic" ELSE "ok",
                    IF order.startPrice = 0 THEN "Panic" ELSE "ok",
                    Transferable(tokenBalance, sender, amount,
                                 "Resolver token transfer failed"),
                    Transferable(afterPayment, PartialContract, order.tokenAmount,
                                 "Maker token transfer failed")>>)

claimOrder(sender, orderId) ==
    LET order == partialOrders[orderId]
        currentPrice == DutchAuctionPartial_getCurrentPrice(order, BlockTimestamp(now))
        makerAmount == order.tokenAmount
        amount == resolverAmount(order, currentPrice.price)
        c == [op |-> "claimOrder", sender |-> sender, orderId |-> orderId,
              transfers |-> <<>>]
        e == claimOrderCheck(sender, orderId)
    IN IF e # "ok" THEN PartialReverted(c, e)
       ELSE /\ tokenBalance' =
                  Transfer(Transfer(tokenBalance, sender, order.maker, amount),
                           PartialContract, sender, makerAmount)
            /\ partialOrders' = [partialOrders EXCEPT ![orderId].claimed = TRUE,
                                                      ![orderId].active = FALSE]
            /\ call' = [c EXCEPT !.transfers =
                          <<[from |-> sender, to |-> order.maker, amount |-> amount],
                            [from |-> PartialContract, to |-> sender,
                             amount |-> makerAmount]>>]
            /\ err' = "ok"
            /\ UNCHANGED nextOrderId

InitPartial ==
    /\ now = 0
    /\ escrowInfo = <<>> /\ balance = 0 /\ paid = <<>>
    /\ htlcs = <<>> /\ nextHTLCId = 1 /\ bank = <<>>
    /\ call = [op |-> "constructor"]
    /\ err = "ok"
    /\ NoQuote /\ NoManager /\ NoCoordinator /\ NoShutdown /\ NoTasks /\ NoHandler
    /\ partialOrders = [id \in PartialOrderIds |-> ZeroPartialOrder]
    /\ nextOrderId = 0
    /\ tokenBalance = [a \in PartialSenders \cup {PartialContract} |->
                          IF a = PartialContract THEN 0 ELSE MaxAmount]

CreateOrder ==
    /\ nextOrderId < MaxPartialOrders
    /\ \E tokenAmount \in Amounts, startPrice, endPrice \in Prices,
          duration \in {0, MaxTime}, merkleRoot \in MerkleRoots :
          createOrder("maker", tokenAmount, startPrice, endPrice, duration, merkleRoot)
    /\ UNCHANGED <<now, escrowVars, keeperVars, quote, managerVars, coordinatorVars,
                   shutdownVars, taskVars, handlerVars>>

PartialFill ==
    /\ \E sender \in PartialSenders, orderId \in PartialOrderIds, secret \in {1, 2} :
          partialFill(sender, orderId, secret)
    /\ UNCHANGED <<now, escrowVars, keeperVars, quote, managerVars, coordinatorVars,
                   shutdownVars, taskVars, handlerVars>>

ClaimOrder ==
    /\ \E sender \in PartialSenders, orderId \in PartialOrderIds :
          claimOrder(sender, orderId)
    /\ UNCHANGED <<now, escrowVars, keeperVars, quote, managerVars, coordinatorVars,
                   shutdownVars, taskVars, handlerVars>>

NextPartial ==
    \/ CreateOrder
    \/ PartialFill
    \/ ClaimOrder
    \/ Tick

SpecPartial == InitPartial /\ [][NextPartial]_vars

(***************************************************************************)
(* Start and Stop of the OrderManager: its four goroutines, each a loop    *)
(* around a select, the stop channel and the wait group.  A goroutine is   *)
(* at its select, in a unit of work, or done.  The Cronos scan of the      *)
(* relayer feeds newOrdersChan.                                            *)
(***************************************************************************)
Workers == {"processNewOrders", "processOrderUpdates",
            "monitorActiveOrders", "updateDutchAuctionPrices"}

\* the case of the select of w that is not a shutdown case can proceed
Ready(w) ==
    CASE w = "processNewOrders" -> newOrdersChan # <<>>
      [] w = "processOrderUpdates" -> updateOrdersChan # <<>>
      [] OTHER -> TRUE

wgDoneSkipped(n) == n

\* wg.Done()
wgDone(n) == n - 1

InitShutdown ==
    /\ now = 0
    /\ escrowInfo = <<>> /\ balance = 0 /\ paid = <<>>
    /\ htlcs = <<>> /\ nextHTLCId = 1 /\ bank = <<>>
    /\ call = [op |-> "NewOrderManager"]
    /\ err = "ok"
    /\ NoQuote /\ NoManager /\ NoCoordinator /\ NoShutdown /\ NoPartial /\ NoTasks /\ NoHandler

\* OrderManager.Start
Start ==
    /\ workers = <<>>
    /\ workers' = [w \in Workers |-> "select"]
    /\ wg' = wg + Cardinality(Workers)
    /\ UNCHANGED <<now, escrowVars, keeperVars, call, err, quote, managerVars,
                   coordinatorVars, stopChan, stop, partialVars, taskVars, handlerVars>>

\* the select of w takes its channel or ticker case
ReceiveOf(w) ==
    /\ workers # <<>> /\ workers[w] = "select"
    /\ Ready(w)
    /\ workers' = [workers EXCEPT ![w] = "work"]
    /\ UNCHANGED <<now, escrowVars, keeperVars, call, err, quote, managerVars,
                   coordinatorVars, stopChan, wg, stop, partialVars, taskVars, handlerVars>>

\* w completes the unit of work it took and is back at its select
FinishOf(w) ==
    /\ workers # <<>> /\ workers[w] = "work"
    /\ CASE w = "processNewOrders" -> processNewOrders
         [] w = "processOrderUpdates" -> processOrderUpdates
         [] w = "monitorActiveOrders" -> checkOrderTimeouts
         [] w = "updateDutchAuctionPrices" -> updateDutchAuctionOrderPrices
    /\ workers' = [workers EXCEPT ![w] = "select"]
    /\ UNCHANGED <<now, escrowVars, keeperVars, quote, managerVars, stopChan, wg,
                   stop, partialVars, taskVars, handlerVars>>

\* the select of w takes the case of the closed stopChan: return, wg.Done()
ObserveOf(w) ==
    /\ workers # <<>> /\ workers[w] = "select"
    /\ stopChan = "closed"
    /\ workers' = [workers EXCEPT ![w] = "done"]
    /\ wg' = wgDone(wg)
    /\ UNCHANGED <<now, escrowVars, keeperVars, call, err, quote, managerVars,
                   coordinatorVars, stopChan, stop, partialVars, taskVars, handlerVars>>

Receive == \E w \in Workers : ReceiveOf(w)
Finish == \E w \in Workers : FinishOf(w)
Observe == \E w \in Workers : ObserveOf(w)

\* OrderManager.Stop: close(stopChan), then wg.Wait()
StopClose ==
    /\ workers # <<>> /\ stop = "idle"
    /\ stopChan' = "closed"
    /\ stop' = "waiting"
    /\ UNCHANGED <<now, escrowVars, keeperVars, call, err, quote, managerVars,
                   coordinatorVars, workers, wg, partialVars, taskVars, handlerVars>>

StopReturn ==
    /\ stop = "waiting" /\ wg = 0
    /\ stop' = "returned"
    /\ UNCHANGED <<now, escrowVars, keeperVars, call, err, quote, managerVars,
                   coordinatorVars, workers, stopChan, wg, partialVars, taskVars, handlerVars>>

NextShutdown ==
    \/ Start
    \/ ScanCronosOrders
    \/ Receive
    \/ Finish
    \/ Observe
    \/ StopClose
    \/ StopReturn

\* a unit of work that was taken completes; a select that can take the closed
\* stopChan again and again takes it (the choice among ready cases is random);
\* wg.Wait returns once the counter is zero
FairShutdown ==
    /\ \A w \in Workers : WF_vars(FinishOf(w)) /\ SF_vars(ObserveOf(w))
    /\ WF_vars(StopReturn)

SpecShutdown == InitShutdown /\ [][NextShutdown]_vars /\ FairShutdown

(***************************************************************************)
(* x/htlc/types/msgs.go: the stateless check of MsgCreateHTLC              *)
(***************************************************************************)
\* sdk.AccAddress.Empty
Empty(address) == address = ""

\* sdk.Coins.IsAllPositive: there is a coin, and every coin's amount is
\* positive
IsAllPositive(coins) ==
    /\ Len(coins) > 0
    /\ \A i \in DOMAIN coins : coins[i] > 0

MsgCreateHTLC_ValidateBasic(msg) ==
    FirstError(<<IF Empty(msg.Sender) THEN "sender cannot be empty" ELSE "ok",
                 IF Empty(msg.Receiver) THEN "receiver cannot be empty" ELSE "ok",
                 IF ~IsAllPositive(msg.Amount) THEN "amount must be positive" ELSE "ok",
                 IF msg.HashLock.len = 0 THEN "hash lock cannot be empty" ELSE "ok",
                 IF msg.TimeLock <= 0
                 THEN "time lock must be positive unix timestamp" ELSE "ok">>)

\* the messages a client can build: Amount holds the amounts of its coins
Messages ==
    [Sender : {"", "maker"},
     Receiver : {"", "taker"},
     Amount : {<<>>, <<0>>, <<MaxAmount>>},
     HashLock : {[len |-> n, digest |-> 0] : n \in {0, Sha256Size - 1, Sha256Size}},
     TimeLock : {-1, 0, MaxTime}]

\* NewMsgCreateHTLC
InitValidate ==
    /\ now = 0
    /\ escrowInfo = EscrowInfo("maker", "taker", keccak256(0), MaxTime - 1, MaxAmount, FALSE, 1)
    /\ balance = 0
    /\ paid = [a \in {"maker", "taker"} |-> 0]
    /\ htlcs = <<>>
    /\ nextHTLCId = 1
    /\ bank = [a \in Accounts \cup {ModuleName} |-> 0]
    /\ \E msg \in Messages : call = [op |-> "NewMsgCreateHTLC", msg |-> msg]
    /\ err = "ok"
    /\ NoQuote /\ NoManager /\ NoCoordinator /\ NoShutdown /\ NoPartial /\ NoTasks /\ NoHandler

ValidateBasic ==
    /\ call.op = "NewMsgCreateHTLC"
    /\ call' = [op |-> "ValidateBasic", msg |-> call.msg]
    /\ err' = MsgCreateHTLC_ValidateBasic(call.msg)
    /\ UNCHANGED <<now, escrowVars, keeperVars, quote, managerVars, coordinatorVars,
                   shutdownVars, partialVars, taskVars, handlerVars>>

NextValidate == ValidateBasic

SpecValidate == InitValidate /\ [][NextValidate]_vars

(***************************************************************************)
(* The relayer's goroutines, statement by statement: processNewOrders,     *)
(* processOrderUpdates and monitorActiveOrders of the OrderManager, and    *)
(* processOrderMatching of the RelayerService, over one order store and    *)
(* its ordersMutex.  A goroutine holds the Orders it works on by address.  *)
(***************************************************************************)
TaskNames ==
    {"processNewOrders", "processOrderUpdates", "monitorActiveOrders",
     "processOrderMatching"}

\* a goroutine waiting in its select, holding nothing
Waiting == [pc |-> "select", order |-> <<>>, ptrs |-> <<>>, result |-> "", time |-> 0]

\* sync.RWMutex
CanLock == ordersMutex.writer = "" /\ ordersMutex.readers = {}
CanRLock == ordersMutex.writer = ""
Lock(t) == [ordersMutex EXCEPT !.writer = t]
Unlock(t) == [ordersMutex EXCEPT !.writer = ""]
RLock(t) == [ordersMutex EXCEPT !.readers = @ \cup {t}]
\* an RUnlock that leaves the reader registered
RUnlockKept(t) == [ordersMutex EXCEPT !.readers = @ \cup {t}]

RUnlock(t) == [ordersMutex EXCEPT !.readers = @ \ {t}]
Holds(t) == ordersMutex.writer = t \/ t \in ordersMutex.readers

\* the addresses of the stored Orders, in the order a range over the map
\* yields them
Snapshots ==
    LET stored == {activeOrders[id].ptr : id \in DOMAIN activeOrders}
    IN {s \in [1 .. Cardinality(stored) -> stored] :
           \A i, j \in DOMAIN s : i # j => s[i] # s[j]}

\* an assignment to fields of the Order at address p
StoreWrite(p, order) ==
    [id \in DOMAIN activeOrders |->
        IF activeOrders[id].ptr = p THEN order ELSE activeOrders[id]]
DetachedWrite(p, order) ==
    [q \in DOMAIN detached |-> IF q = p THEN order ELSE detached[q]]

\* the orders a client hands to AddOrder: both escrow addresses are known
TaskOrders ==
    {o \in ClientOrders :
        o.DestEscrowAddr # "" /\ o.Type = OrderTypeEthereumToCronos}

TaskFrame ==
    UNCHANGED <<now, escrowVars, keeperVars, quote, managerVars, shutdownVars,
                partialVars, handlerVars, lastCronosBlock, lastEthereumBlock>>

InitTasks ==
    /\ now = 0
    /\ escrowInfo = <<>> /\ balance = 0 /\ paid = <<>>
    /\ htlcs = <<>> /\ nextHTLCId = 1 /\ bank = <<>>
    /\ call = [op |-> "NewOrderManager"]
    /\ err = "ok"
    /\ NoQuote /\ NoManager /\ NoShutdown /\ NoPartial /\ NoHandler
    /\ activeOrders = <<>> /\ newOrdersChan = <<>>
    /\ lastCronosBlock = 0 /\ lastEthereumBlock = 0
    /\ updateOrdersChan = <<>> /\ completedOrders = <<>> /\ detached = <<>>
    /\ commands = <<>> /\ matchedLog = <<>>
    /\ ledger = [funded |-> TRUE, sourceWithdrawn |-> FALSE, destWithdrawn |-> FALSE]
    /\ ordersMutex = [writer |-> "", readers |-> {}]
    /\ tasks = [t \in TaskNames |-> Waiting]

\* a client calls AddOrder with an order the relayer has not seen
TaskAddOrder ==
    /\ \E order \in TaskOrders :
          /\ Sent("CreateDestinationEscrow", order.ID) = 0
          /\ newOrdersChan = <<>>
          /\ newOrdersChan' = AddOrder(newOrdersChan, order)
    /\ call' = [op |-> "AddOrder"]
    /\ err' = "ok"
    /\ TaskFrame
    /\ UNCHANGED <<activeOrders, commands, updateVars, taskVars>>

\* processNewOrders receives an order and handleNewOrder deploys its
\* destination escrow
NewOrderHandle ==
    LET t == "processNewOrders" IN
    /\ tasks[t].pc = "select"
    /\ newOrdersChan # <<>>
    /\ \E created \in BOOLEAN :
          LET received == Head(newOrdersChan) IN
          /\ tasks' = [tasks EXCEPT ![t].pc = "Lock",
                                    ![t].order = <<handleNewOrder(received, created)>>]
          /\ commands' = commands \o CreateDestinationEscrow(received, created)
          /\ err' = IF created THEN "ok" ELSE "failed to create destination escrow"
    /\ newOrdersChan' = Tail(newOrdersChan)
    /\ call' = [op |-> "handleNewOrder"]
    /\ TaskFrame
    /\ UNCHANGED <<activeOrders, updateVars, ordersMutex>>

NewOrderLock ==
    LET t == "processNewOrders" IN
    /\ tasks[t].pc = "Lock"
    /\ CanLock
    /\ ordersMutex' = Lock(t)
    /\ tasks' = [tasks EXCEPT ![t].pc = "store"]
    /\ TaskFrame
    /\ UNCHANGED <<activeOrders, newOrdersChan, commands, updateVars, call, err>>

\* om.activeOrders[order.ID] = order, and Unlock
NewOrderStore ==
    LET t == "processNewOrders"
        order == [tasks[t].order[1] EXCEPT !.ptr = NewPointer]
    IN
    /\ tasks[t].pc = "store"
    /\ activeOrders' = [id \in DOMAIN activeOrders \cup {order.ID} |->
                           IF id = order.ID THEN order ELSE activeOrders[id]]
    /\ ordersMutex' = Unlock(t)
    /\ tasks' = [tasks EXCEPT ![t] = Waiting]
    /\ call' = [op |-> "processNewOrders"]
    /\ err' = "ok"
    /\ TaskFrame
    /\ UNCHANGED <<newOrdersChan, commands, updateVars>>

\* monitorActiveOrders' ticker fires: checkOrderTimeouts reads the clock
TimeoutsNow ==
    LET t == "monitorActiveOrders" IN
    /\ tasks[t].pc = "select"
    /\ tasks' = [tasks EXCEPT ![t].pc = "Lock", ![t].time = timeNow]
    /\ TaskFrame
    /\ UNCHANGED <<activeOrders, newOrdersChan, commands, updateVars, ordersMutex,
                   call, err>>

TimeoutsLock ==
    LET t == "monitorActiveOrders" IN
    /\ tasks[t].pc = "Lock"
    /\ CanLock
    /\ ordersMutex' = Lock(t)
    /\ tasks' = [tasks EXCEPT ![t].pc = "checkOrderTimeouts"]
    /\ TaskFrame
    /\ UNCHANGED <<activeOrders, newOrdersChan, commands, updateVars, call, err>>

\* the loop of checkOrderTimeouts, and its deferred Unlock
TimeoutsSweep ==
    LET t == "monitorActiveOrders" IN
    /\ tasks[t].pc = "checkOrderTimeouts"
    /\ activeOrders' = [id \in DOMAIN activeOrders |->
          IF tasks[t].time > activeOrders[id].ExpiresAt
          THEN [activeOrders[id] EXCEPT !.Status = OrderStatusExpired]
          ELSE activeOrders[id]]
    /\ ordersMutex' = Unlock(t)
    /\ tasks' = [tasks EXCEPT ![t].pc = "syncOrderStates", ![t].time = 0]
    /\ call' = [op |-> "checkOrderTimeouts"]
    /\ err' = "ok"
    /\ TaskFrame
    /\ UNCHANGED <<newOrdersChan, commands, updateVars>>

\* syncOrderStates copies the stored addresses under the read lock
SyncRLock ==
    LET t == "monitorActiveOrders" IN
    /\ tasks[t].pc = "syncOrderStates"
    /\ CanRLock
    /\ ordersMutex' = RLock(t)
    /\ \E s \in Snapshots : tasks' = [tasks EXCEPT ![t].pc = "RUnlock", ![t].ptrs = s]
    /\ TaskFrame
    /\ UNCHANGED <<activeOrders, newOrdersChan, commands, updateVars, call, err>>

SyncRUnlock ==
    LET t == "monitorActiveOrders" IN
    /\ tasks[t].pc = "RUnlock"
    /\ ordersMutex' = RUnlock(t)
    /\ tasks' = [tasks EXCEPT ![t].pc = "syncOrderState"]
    /\ TaskFrame
    /\ UNCHANGED <<activeOrders, newOrdersChan, commands, updateVars, call, err>>

\* syncOrderState of every copied address: it queries no ledger and changes
\* no Order
SyncOrderState ==
    LET t == "monitorActiveOrders" IN
    /\ tasks[t].pc = "syncOrderState"
    /\ tasks' = [tasks EXCEPT ![t] = Waiting]
    /\ call' = [op |-> "syncOrderStates"]
    /\ err' = "ok"
    /\ TaskFrame
    /\ UNCHANGED <<activeOrders, newOrdersChan, commands, updateVars, ordersMutex>>

\* processOrderMatching's ticker fires: matchOrders calls GetActiveOrders,
\* which copies the stored addresses under the read lock and releases it
MatchGetActiveOrders ==
    LET t == "processOrderMatching" IN
    /\ tasks[t].pc = "select"
    /\ CanRLock
    /\ \E s \in Snapshots : tasks' = [tasks EXCEPT ![t].pc = "read", ![t].ptrs = s]
    /\ call' = [op |-> "GetActiveOrders"]
    /\ err' = "ok"
    /\ TaskFrame
    /\ UNCHANGED <<activeOrders, newOrdersChan, commands, updateVars, ordersMutex>>

\* if order.Status == OrderStatusActive && canExecuteOrder(order)
MatchRead ==
    LET t == "processOrderMatching" IN
    /\ tasks[t].pc = "read"
    /\ IF tasks[t].ptrs = <<>>
       THEN tasks' = [tasks EXCEPT ![t] = Waiting]
       ELSE LET order == Heap[Head(tasks[t].ptrs)] IN
            IF order.Status = OrderStatusActive /\ canExecuteOrder(order)
            THEN tasks' = [tasks EXCEPT ![t].pc = "write"]
            ELSE tasks' = [tasks EXCEPT ![t].ptrs = Tail(@)]
    /\ TaskFrame
    /\ UNCHANGED <<activeOrders, newOrdersChan, commands, updateVars, ordersMutex,
                   call, err>>

\* order.Status = OrderStatusMatched, and the log line
MatchWrite ==
    LET t == "processOrderMatching"
        p == Head(tasks[t].ptrs)
        order == [Heap[p] EXCEPT !.Status = OrderStatusMatched]
    IN
    /\ tasks[t].pc = "write"
    /\ activeOrders' = StoreWrite(p, order)
    /\ detached' = DetachedWrite(p, order)
    /\ matchedLog' = [id \in DOMAIN matchedLog \cup {order.ID} |->
                         (IF id \in DOMAIN matchedLog THEN matchedLog[id] ELSE 0)
                         + (IF id = order.ID THEN 1 ELSE 0)]
    /\ tasks' = [tasks EXCEPT ![t].pc = "read", ![t].ptrs = Tail(@)]
    /\ call' = [op |-> "matchOrders"]
    /\ err' = "ok"
    /\ TaskFrame
    /\ UNCHANGED <<newOrdersChan, commands, updateOrdersChan, completedOrders, ledger,
                   ordersMutex>>

UpdateReceive ==
    LET t == "processOrderUpdates" IN
    /\ tasks[t].pc = "select"
    /\ updateOrdersChan # <<>>
    /\ tasks' = [tasks EXCEPT ![t].pc = "handleOrderUpdate",
                              ![t].ptrs = <<Head(updateOrdersChan)>>]
    /\ updateOrdersChan' = Tail(updateOrdersChan)
    /\ TaskFrame
    /\ UNCHANGED <<activeOrders, newOrdersChan, commands, completedOrders, detached,
                   ledger, matchedLog, ordersMutex, call, err>>

\* handleOrderUpdate reads the Order's status and, for a matched order with a
\* secret, sends the withdraw to the source ledger
UpdateHandle ==
    LET t == "processOrderUpdates"
        p == Head(tasks[t].ptrs)
    IN
    /\ tasks[t].pc = "handleOrderUpdate"
    /\ \E sent \in {s \in BOOLEAN : s => SourceAccepts} :
          LET handled == handleOrderUpdate(Heap[p], sent) IN
          /\ tasks' = [tasks EXCEPT ![t].pc = "returned",
                                    ![t].order = <<handled.order>>,
                                    ![t].result = handled.err]
          /\ commands' = commands \o handled.commands
          /\ ledger' = IF handled.commands # <<>> /\ sent
                       THEN [ledger EXCEPT !.sourceWithdrawn = TRUE]
                       ELSE ledger
          /\ err' = handled.err
    /\ call' = [op |-> "handleOrderUpdate"]
    /\ TaskFrame
    /\ UNCHANGED <<activeOrders, newOrdersChan, updateOrdersChan, completedOrders,
                   detached, matchedLog, ordersMutex>>

\* the call has returned: executeSwap assigns SourceTxHash and Status, or
\* processOrderUpdates counts the failure; then the test for removal
UpdateReturned ==
    LET t == "processOrderUpdates"
        p == Head(tasks[t].ptrs)
        handled == tasks[t].order[1]
        order == IF tasks[t].result # "ok"
                 THEN [Heap[p] EXCEPT !.RetryCount = @ + 1,
                                      !.LastError = tasks[t].result]
                 ELSE IF handled.Status = OrderStatusCompleted
                 THEN [Heap[p] EXCEPT !.SourceTxHash = handled.SourceTxHash,
                                      !.Status = OrderStatusCompleted]
                 ELSE Heap[p]
        remove == order.Status \in {OrderStatusCompleted, OrderStatusCancelled,
                                    OrderStatusExpired}
    IN
    /\ tasks[t].pc = "returned"
    /\ activeOrders' = StoreWrite(p, order)
    /\ detached' = DetachedWrite(p, order)
    /\ tasks' = IF remove
                THEN [tasks EXCEPT ![t].pc = "Lock", ![t].order = <<>>, ![t].result = ""]
                ELSE [tasks EXCEPT ![t] = Waiting]
    /\ call' = [op |-> "processOrderUpdates"]
    /\ err' = "ok"
    /\ TaskFrame
    /\ UNCHANGED <<newOrdersChan, commands, updateOrdersChan, completedOrders, ledger,
                   matchedLog, ordersMutex>>

UpdateLock ==
    LET t == "processOrderUpdates" IN
    /\ tasks[t].pc = "Lock"
    /\ CanLock
    /\ ordersMutex' = Lock(t)
    /\ tasks' = [tasks EXCEPT ![t].pc = "delete"]
    /\ TaskFrame
    /\ UNCHANGED <<activeOrders, newOrdersChan, commands, updateVars, call, err>>

\* delete(om.activeOrders, order.ID), Unlock, and the send on completedOrders
UpdateDelete ==
    LET t == "processOrderUpdates"
        p == Head(tasks[t].ptrs)
        order == Heap[p]
        pushed == Len(completedOrders) < CompletedOrdersCap
    IN
    /\ tasks[t].pc = "delete"
    /\ activeOrders' = [id \in DOMAIN activeOrders \ {order.ID} |-> activeOrders[id]]
    /\ completedOrders' = IF pushed THEN Append(completedOrders, p) ELSE completedOrders
    /\ detached' = [q \in DOMAIN detached \cup {p} |-> Heap[q]]
    /\ ordersMutex' = Unlock(t)
    /\ tasks' = [tasks EXCEPT ![t] = Waiting]
    /\ call' = [op |-> "delete"]
    /\ err' = "ok"
    /\ TaskFrame
    /\ UNCHANGED <<newOrdersChan, commands, updateOrdersChan, ledger, matchedLog>>

NextTasks ==
    \/ TaskAddOrder
    \/ NewOrderHandle
    \/ NewOrderLock
    \/ NewOrderStore
    \/ TimeoutsNow
    \/ TimeoutsLock
    \/ TimeoutsSweep
    \/ SyncRLock
    \/ SyncRUnlock
    \/ SyncOrderState
    \/ MatchGetActiveOrders
    \/ MatchRead
    \/ MatchWrite
    \/ UpdateReceive
    \/ UpdateHandle
    \/ UpdateReturned
    \/ UpdateLock
    \/ UpdateDelete
    \/ SendUpdate
    \/ Tick

SpecTasks == InitTasks /\ [][NextTasks]_vars

(***************************************************************************)
(* The handler-based HTLC module: cosmos/x/htlc/handler.go, keeper.go,     *)
(* types.go                                                                *)
(*                                                                         *)
(* Its store is keyed by the hash lock, its time lock is a block height    *)
(* (now counts blocks here).  The ValidateBasic of its messages is not in  *)
(* the sources; the messages offered have non-empty addresses, a non-empty *)
(* hash lock and HTLC id, a positive amount and a positive time lock.  A   *)
(* handler that returns an error leaves no write behind.                   *)
(***************************************************************************)
\* types.ComputeHash: the SHA-256 digest of the secret
ComputeHash(secret) == sha256Sum256(secret)

\* equalBytes
equalBytes(a, b) == a.len = b.len /\ a.digest = b.digest

NewHTLC(sender, recipient, amount, hashLock, timeLock) ==
    [Sender |-> sender,
     Recipient |-> recipient,
     Amount |-> amount,
     HashLock |-> hashLock,
     TimeLock |-> timeLock,
     SecretRevealed |-> FALSE]

\* Keeper.SetHTLC: the store after store.Set(htlc.HashLock, bz)
Keeper_SetHTLC(htlc) ==
    [key \in DOMAIN htlcStore \cup {htlc.HashLock} |->
        IF key = htlc.HashLock THEN htlc ELSE htlcStore[key]]

\* Keeper.GetHTLC
Keeper_GetHTLC(hashLock) ==
    IF hashLock \in DOMAIN htlcStore
    THEN [found |-> TRUE, htlc |-> htlcStore[hashLock]]
    ELSE [found |-> FALSE, htlc |-> Nil]

HandlerFailed(c, e) ==
    /\ call' = c
    /\ err' = e
    /\ UNCHANGED <<htlcStore, bank>>

handleMsgCreateHTLCCheck(sender, recipient, amount, hashLock, timeLock) ==
    FirstError(<<SendCoins(sender, ModuleName, amount),
                 IF hashLock.len = 0 THEN "htlc hashlock cannot be empty" ELSE "ok">>)

handleMsgCreateHTLC(sender, recipient, amount, hashLock, timeLock) ==
    LET e == handleMsgCreateHTLCCheck(sender, recipient, amount, hashLock, timeLock)
        c == [op |-> "handleMsgCreateHTLC", sender |-> sender, hashLock |-> hashLock]
    IN
    IF e # "ok" THEN HandlerFailed(c, e)
    ELSE /\ bank' = [bank EXCEPT ![sender] = @ - amount, ![ModuleName] = @ + amount]
         /\ htlcStore' = Keeper_SetHTLC(NewHTLC(sender, recipient, amount, hashLock, timeLock))
         /\ call' = c
         /\ err' = "ok"

handleMsgClaimHTLCCheck(claimer, htlcId, secret) ==
    LET r == Keeper_GetHTLC(htlcId) IN
    IF ~r.found THEN "htlc not found"
    ELSE FirstError(<<IF ~equalBytes(ComputeHash(secret), r.htlc.HashLock)
                      THEN "invalid secret" ELSE "ok",
                      SendCoins(ModuleName, r.htlc.Recipient, r.htlc.Amount)>>)

handleMsgClaimHTLC(claimer, htlcId, secret) ==
    LET e == handleMsgClaimHTLCCheck(claimer, htlcId, secret)
        c == [op |-> "handleMsgClaimHTLC", claimer |-> claimer, htlcId |-> htlcId]
        htlc == htlcStore[htlcId]
    IN
    IF e # "ok" THEN HandlerFailed(c, e)
    ELSE /\ bank' = [bank EXCEPT ![ModuleName] = @ - htlc.Amount,
                                 ![htlc.Recipient] = @ + htlc.Amount]
         /\ htlcStore' = Keeper_SetHTLC([htlc EXCEPT !.SecretRevealed = TRUE])
         /\ call' = c
         /\ err' = "ok"

handleMsgRefundHTLCCheck(sender, htlcId) ==
    LET r == Keeper_GetHTLC(htlcId) IN
    IF ~r.found THEN "htlc not found"
    ELSE FirstError(<<IF now < r.htlc.TimeLock THEN "timelock has not expired" ELSE "ok",
                      IF r.htlc.SecretRevealed THEN "htlc already claimed" ELSE "ok",
                      SendCoins(ModuleName, r.htlc.Sender, r.htlc.Amount)>>)

handleMsgRefundHTLC(sender, htlcId) ==
    LET e == handleMsgRefundHTLCCheck(sender, htlcId)
        c == [op |-> "handleMsgRefundHTLC", sender |-> sender, htlcId |-> htlcId]
        htlc == htlcStore[htlcId]
    IN
    IF e # "ok" THEN HandlerFailed(c, e)
    ELSE /\ bank' = [bank EXCEPT ![ModuleName] = @ - htlc.Amount,
                                 ![htlc.Sender] = @ + htlc.Amount]
         /\ htlcStore' = Keeper_SetHTLC([htlc EXCEPT !.SecretRevealed = TRUE])
         /\ call' = c
         /\ err' = "ok"

\* the hash locks of the messages: the digests of two secrets
HandlerHashLocks == {ComputeHash(0), ComputeHash(1)}
\* the time locks of the messages, in blocks
HandlerTimeLocks == {1, MaxTime}

HandlerFrame ==
    UNCHANGED <<now, escrowVars, htlcs, nextHTLCId, quote, managerVars, coordinatorVars,
                shutdownVars, partialVars, taskVars>>

InitHandler ==
    /\ now = 0
    /\ escrowInfo = <<>> /\ balance = 0 /\ paid = <<>>
    /\ htlcs = <<>> /\ nextHTLCId = 1
    /\ bank = [a \in Accounts \cup {ModuleName} |-> IF a \in Parties THEN MaxAmount - 1 ELSE 0]
    /\ htlcStore = <<>>
    /\ call = [op |-> "NewHandler"]
    /\ err = "ok"
    /\ NoQuote /\ NoManager /\ NoCoordinator /\ NoShutdown /\ NoPartial /\ NoTasks

HandlerCreateHTLC ==
    /\ \E s \in Parties, a \in {1, MaxAmount - 1},
          h \in HandlerHashLocks, t \in HandlerTimeLocks :
          \E r \in Parties \ {s} : handleMsgCreateHTLC(s, r, a, h, t)
    /\ HandlerFrame

HandlerClaimHTLC ==
    /\ \E c \in Accounts, id \in HandlerHashLocks, x \in Secrets :
          handleMsgClaimHTLC(c, id, x)
    /\ HandlerFrame

HandlerRefundHTLC ==
    /\ \E s \in Accounts, id \in HandlerHashLocks : handleMsgRefundHTLC(s, id)
    /\ HandlerFrame

NextHandler ==
    \/ HandlerCreateHTLC
    \/ HandlerClaimHTLC
    \/ HandlerRefundHTLC
    \/ Tick

SpecHandler == InitHandler /\ [][NextHandler]_vars

(***************************************************************************)
(* The two ingestion polls with clients that can fail:                     *)
(* relayer/internal/service/service.go scanCronosOrders, scanEthereumOrders *)
(***************************************************************************)
\* what GetLatestBlock returns: an error, or the height of the node asked,
\* which may be behind the height the chain has reached
LatestBlockReplies ==
    {[ok |-> FALSE, value |-> 0]} \cup {[ok |-> TRUE, value |-> b] : b \in 0 .. GetLatestBlock}

\* what GetEscrowOrders returns: an error, or the escrows
EscrowOrdersReplies(orders) ==
    {[ok |-> FALSE, orders |-> <<>>], [ok |-> TRUE, orders |-> orders]}

ScanReturned(c, e) ==
    /\ call' = c
    /\ err' = e
    /\ UNCHANGED <<activeOrders, newOrdersChan, lastCronosBlock, lastEthereumBlock,
                   commands, updateVars>>

\* seeded fault: the cursor is moved before the escrows are fetched
scanCronosOrdersMovesFirst(latestBlock, reply) ==
    LET c == [op |-> "scanCronosOrders", latestBlock |-> latestBlock] IN
    IF ~latestBlock.ok THEN ScanReturned(c, "failed to get latest Cronos block")
    ELSE IF latestBlock.value <= lastCronosBlock THEN ScanReturned(c, "ok")
    ELSE /\ lastCronosBlock' = latestBlock.value
         /\ newOrdersChan' =
               IF reply.ok
               THEN AddOrders(newOrdersChan,
                              [i \in DOMAIN reply.orders |->
                                  convertCronosOrderToOrder(reply.orders[i])])
               ELSE newOrdersChan
         /\ call' = c
         /\ err' = IF reply.ok THEN "ok" ELSE "failed to get Cronos orders"
         /\ UNCHANGED <<activeOrders, lastEthereumBlock, commands, updateVars>>

scanCronosOrdersFrom(latestBlock, reply) ==
    LET c == [op |-> "scanCronosOrders", latestBlock |-> latestBlock] IN
    IF ~latestBlock.ok THEN ScanReturned(c, "failed to get latest Cronos block")
    ELSE IF latestBlock.value <= lastCronosBlock THEN ScanReturned(c, "ok")
    ELSE IF ~reply.ok THEN ScanReturned(c, "failed to get Cronos orders")
    ELSE /\ newOrdersChan' =
               AddOrders(newOrdersChan,
                         [i \in DOMAIN reply.orders |->
                             convertCronosOrderToOrder(reply.orders[i])])
         /\ lastCronosBlock' = latestBlock.value
         /\ call' = c
         /\ err' = "ok"
         /\ UNCHANGED <<activeOrders, lastEthereumBlock, commands, updateVars>>

scanEthereumOrdersFrom(latestBlock, reply) ==
    LET c == [op |-> "scanEthereumOrders", latestBlock |-> latestBlock] IN
    IF ~latestBlock.ok THEN ScanReturned(c, "failed to get latest Ethereum block")
    ELSE IF latestBlock.value <= lastEthereumBlock THEN ScanReturned(c, "ok")
    ELSE IF ~reply.ok THEN ScanReturned(c, "failed to get Ethereum orders")
    ELSE /\ newOrdersChan' =
               AddOrders(newOrdersChan,
                         [i \in DOMAIN reply.orders |->
                             convertEthereumOrderToOrder(reply.orders[i])])
         /\ lastEthereumBlock' = latestBlock.value
         /\ call' = c
         /\ err' = "ok"
         /\ UNCHANGED <<activeOrders, lastCronosBlock, commands, updateVars>>

ScanFrame ==
    UNCHANGED <<now, escrowVars, keeperVars, quote, managerVars, shutdownVars,
                partialVars, taskVars, handlerVars>>

\* a tick of monitorCronosOrders
PollCronosOrders ==
    /\ \E latestBlock \in LatestBlockReplies,
          reply \in EscrowOrdersReplies(CronosEscrowOrders) :
          scanCronosOrdersFrom(latestBlock, reply)
    /\ ScanFrame

\* a tick of monitorEthereumOrders
PollEthereumOrders ==
    /\ \E latestBlock \in LatestBlockReplies,
          reply \in EscrowOrdersReplies(EthereumEscrowOrders(lastEthereumBlock)) :
          scanEthereumOrdersFrom(latestBlock, reply)
    /\ ScanFrame

NextScan ==
    \/ PollCronosOrders
    \/ PollEthereumOrders
    \/ Tick

SpecScan == InitCoordinator /\ [][NextScan]_vars

(***************************************************************************)
(* Properties                                                              *)
(***************************************************************************)
\* the step is a call of the operation `name`: Tick is the only step that
\* moves the clock, and it makes no call
CallStep(name) == now' = now /\ call'.op = name

\* the HTLC id and the Escrow are the two funded legs of one swap: both are
\* locked under the same secret hash
SameSwap(id) ==
    /\ id \in DOMAIN htlcs
    /\ htlcs[id].HashLock = [len |-> Sha256Size, digest |-> escrowInfo.secretHash]
    /\ escrowInfo.depositedAmount > 0

\* C1: for a swap whose two legs are locked under the same secret hash, no
\* reachable state has one leg withdrawn/claimed by its claimant while the
\* other leg has been cancelled/refunded to its depositor.
C1_BothLegsSettleAlike ==
    \A id \in DOMAIN htlcs :
        SameSwap(id) =>
            /\ ~(escrowInfo.status = Withdrawn /\ htlcs[id].Refunded)
            /\ ~(htlcs[id].Claimed /\ escrowInfo.status = Cancelled)

\* C2: withdraw, partialWithdraw and ClaimHTLC reject every secret/preimage
\* whose hash differs from the stored hash, and the rejected call leaves the
\* status, the amounts and the claimed flag unchanged and transfers nothing.
C2_WrongSecretStep ==
    /\ ( /\ CallStep("withdraw") \/ CallStep("partialWithdraw")
         /\ keccak256(call'.secret) # escrowInfo.secretHash )
          => (err' # "ok" /\ UNCHANGED <<escrowInfo, balance, paid>>)
    /\ ( /\ CallStep("ClaimHTLC")
         /\ call'.id \in DOMAIN htlcs
         /\ sha256Sum256(call'.secret) # htlcs[call'.id].HashLock )
          => (err' # "ok" /\ UNCHANGED <<htlcs, nextHTLCId, bank>>)

C2_WrongSecretRejected == [][C2_WrongSecretStep]_vars

\* a funded, source-confirmed escrow has just refused the maker's wrong secret
C2_Witness ==
    /\ call.op = "withdraw"
    /\ err = "InvalidSecret"
    /\ keccak256(call.secret) # escrowInfo.secretHash
    /\ escrowInfo.depositedAmount > 0
    /\ escrowInfo.status = Active

\* C3: a withdraw with the correct secret is accepted exactly once: once the
\* status is Withdrawn it stays Withdrawn, and every further withdraw or
\* partialWithdraw (of any amount) fails - with AlreadyWithdrawn when the maker
\* calls, with Unauthorized when the caller does not pass onlyMaker - and
\* transfers nothing.
C3_AfterWithdrawnStep ==
    escrowInfo.status = Withdrawn =>
        /\ escrowInfo'.status = Withdrawn
        /\ (CallStep("withdraw") \/ CallStep("partialWithdraw")) =>
              /\ err' = IF call'.sender = escrowInfo.maker
                        THEN "AlreadyWithdrawn" ELSE "Unauthorized"
              /\ UNCHANGED <<escrowInfo, balance, paid>>

C4_ClaimStep ==
    /\ ((CallStep("withdraw") \/ CallStep("partialWithdraw")) /\ err' = "ok")
          => now < escrowInfo.timelock
    /\ (CallStep("ClaimHTLC") /\ err' = "ok")
          => now < htlcs[call'.id].TimeLock

C4_ClaimOnlyBeforeExpiry == [][C4_ClaimStep]_vars

\* C5: cancel and RefundHTLC succeed only when the current time is at or after
\* the timelock and the escrow/HTLC has not already been withdrawn/claimed or
\* cancelled/refunded; in every other case they fail and leave the state
\* unchanged.
C5_RefundStep ==
    /\ CallStep("cancel") =>
          IF now >= escrowInfo.timelock /\ escrowInfo.status = Active
          THEN err' = "ok" => escrowInfo'.status = Cancelled
          ELSE err' # "ok" /\ UNCHANGED <<escrowInfo, balance, paid>>
    /\ (CallStep("RefundHTLC") /\ call'.id \in DOMAIN htlcs) =>
          IF /\ now >= htlcs[call'.id].TimeLock
             /\ ~htlcs[call'.id].Claimed
             /\ ~htlcs[call'.id].Refunded
          THEN err' = "ok" => htlcs'[call'.id].Refunded
          ELSE err' # "ok" /\ UNCHANGED <<htlcs, nextHTLCId, bank>>

C5_RefundOnlyAfterExpiry == [][C5_RefundStep]_vars

\* the taker's cancel of a funded escrow was refused before the timelock
C5_Witness ==
    /\ call.op = "cancel"
    /\ call.sender = escrowInfo.taker
    /\ err = "TimelockNotExpired"
    /\ now < escrowInfo.timelock
    /\ escrowInfo.depositedAmount > 0

\* C6: withdraw and partialWithdraw never succeed while srcConfirmed is false.
C6_SourceStep ==
    ((CallStep("withdraw") \/ CallStep("partialWithdraw")) /\ err' = "ok")
        => escrowInfo.srcConfirmed

C6_NoWithdrawBeforeSourceConfirmed == [][C6_SourceStep]_vars

\* the maker's withdrawal from a funded escrow was refused for want of the
\* source confirmation
C6_Witness ==
    /\ call.op = "withdraw"
    /\ err = "SourceEscrowNotConfirmed"
    /\ ~escrowInfo.srcConfirmed
    /\ escrowInfo.depositedAmount > 0

\* C7: confirmSourceEscrow succeeds only when the escrow has been funded and is
\* neither withdrawn nor cancelled; in any other state it fails without
\* changing the escrow.
C7_ConfirmStep ==
    (CallStep("confirmSourceEscrow")
        /\ ~(escrowInfo.depositedAmount > 0 /\ escrowInfo.status = Active))
        => (err' # "ok" /\ UNCHANGED <<escrowInfo, balance, paid>>)

C7_ConfirmOnlyFromFunded == [][C7_ConfirmStep]_vars

\* C8: after any sequence of deposit, partialWithdraw, withdraw and cancel
\* calls, filledAmount is the sum of the amounts of the successful
\* partialWithdraw calls (it is 0 after construction, grows by the amount on
\* each successful partialWithdraw and is changed by nothing else),
\* filledAmount + remainingAmount = depositedAmount, and
\* remainingAmount <= expectedAmount.
C8_Accounting ==
    /\ call.op = "constructor" => escrowInfo.filledAmount = 0
    /\ escrowInfo.filledAmount + escrowInfo.remainingAmount = escrowInfo.depositedAmount
    /\ escrowInfo.remainingAmount <= escrowInfo.expectedAmount

C8_FilledStep ==
    escrowInfo'.filledAmount =
        IF CallStep("partialWithdraw") /\ err' = "ok"
        THEN escrowInfo.filledAmount + call'.amount
        ELSE escrowInfo.filledAmount

C8_FillAccounting == [](C8_Accounting) /\ [][C8_FilledStep]_vars

\* a partial withdrawal has succeeded and part of the deposit remains
C8_Witness ==
    /\ call.op = "partialWithdraw"
    /\ err = "ok"
    /\ escrowInfo.filledAmount > 0
    /\ escrowInfo.remainingAmount > 0

\* C9: whenever the status is Withdrawn, remainingAmount is 0.
C9_WithdrawnHasNoRemainder ==
    escrowInfo.status = Withdrawn => escrowInfo.remainingAmount = 0

\* C10: partialWithdraw rejects an amount with 0 < amount < minimumFillAmount
\* unless amount = remainingAmount; a below-minimum amount that exactly
\* exhausts the remainder is accepted (it passes the fill checks: only the
\* transfer of the funds itself can still fail).
C10_MinimumFillStep ==
    ( /\ CallStep("partialWithdraw")
      /\ call'.sender = escrowInfo.maker
      /\ escrowInfo.status = Active
      /\ escrowInfo.allowPartialFill
      /\ escrowInfo.srcConfirmed
      /\ keccak256(call'.secret) = escrowInfo.secretHash
      /\ 0 < call'.amount
      /\ call'.amount < escrowInfo.minimumFillAmount )
        => IF call'.amount = escrowInfo.remainingAmount
           THEN err' \in {"ok", "InsufficientFunds"}
           ELSE err' # "ok"

C10_BelowMinimumOnlyIfExhausting == [][C10_MinimumFillStep]_vars

\* C11: a partialWithdraw whose amount exceeds remainingAmount, or that would
\* leave a non-zero remainingAmount smaller than minimumFillAmount, is rejected
\* and changes nothing; an accepted fill moves exactly the requested amount.
C11_FillStep ==
    CallStep("partialWithdraw") =>
        /\ ( \/ call'.amount > escrowInfo.remainingAmount
             \/ /\ escrowInfo.remainingAmount - call'.amount > 0
                /\ escrowInfo.remainingAmount - call'.amount < escrowInfo.minimumFillAmount )
              => (err' # "ok" /\ UNCHANGED <<escrowInfo, balance, paid>>)
        /\ err' = "ok" =>
              /\ escrowInfo'.remainingAmount = escrowInfo.remainingAmount - call'.amount
              /\ paid'[escrowInfo.maker] = paid[escrowInfo.maker] + call'.amount

C11_OversizedOrDustFillRejected == [][C11_FillStep]_vars

\* C12: a deposit (depositETH, depositToken) succeeds only on an escrow that
\* holds no deposit yet, and only if amount = expectedAmount for a non-partial
\* escrow or amount >= minimumFillAmount for a partial-fill escrow; every other
\* deposit is rejected and leaves depositedAmount and remainingAmount unchanged.
C12_DepositStep ==
    (CallStep("depositETH") \/ CallStep("depositToken")) =>
        IF err' = "ok"
        THEN /\ escrowInfo.depositedAmount = 0
             /\ IF escrowInfo.allowPartialFill
                THEN call'.amount >= escrowInfo.minimumFillAmount
                ELSE call'.amount = escrowInfo.expectedAmount
        ELSE /\ escrowInfo'.depositedAmount = escrowInfo.depositedAmount
             /\ escrowInfo'.remainingAmount = escrowInfo.remainingAmount

C12_DepositOnceAndValid == [][C12_DepositStep]_vars

\* C13: the total paid out by withdraw, partialWithdraw and cancel never
\* exceeds depositedAmount, and a successful cancel pays the depositor (the
\* taker) exactly depositedAmount minus everything already withdrawn.
C13_PaidWithinDeposit ==
    paid[escrowInfo.maker] + paid[escrowInfo.taker] <= escrowInfo.depositedAmount

C13_CancelStep ==
    (CallStep("cancel") /\ err' = "ok") =>
        /\ paid'[escrowInfo.taker] - paid[escrowInfo.taker]
              = escrowInfo.depositedAmount - paid[escrowInfo.maker]
        /\ paid'[escrowInfo.maker] = paid[escrowInfo.maker]

C13_PayoutBounded == [](C13_PaidWithinDeposit) /\ [][C13_CancelStep]_vars

\* the taker cancelled after the maker had taken part of the deposit
C13_Witness ==
    /\ call.op = "cancel"
    /\ err = "ok"
    /\ escrowInfo.status = Cancelled
    /\ paid[escrowInfo.maker] > 0
    /\ paid[escrowInfo.taker] > 0

\* C14: for auction parameters with startPrice > endPrice, a duration > 0 and
\* a decay rate >= 0, and any two instants t1 < t2, the price at t1 is greater
\* than or equal to the price at t2: for the relayer's
\* calculateDutchAuctionPrice, and for the getCurrentPrice of
\* DutchAuctionManager and of DutchAuction wherever both calls return a price.
C14_PriceStep ==
    (quote.quoted /\ quote'.t > quote.t) =>
        /\ quote'.relayer <= quote.relayer
        /\ (~quote.manager.reverted /\ ~quote'.manager.reverted)
              => quote'.manager.price <= quote.manager.price
        /\ (~quote.auction.reverted /\ ~quote'.auction.reverted)
              => quote'.auction.price <= quote.auction.price

C15_ChainDecayRate ==
    quote.decayRate = (quote.startPrice - quote.endPrice) \div quote.duration

\* C15: the relayer's price equals endPrice (MinimumPrice) at every instant
\* t >= startTime + duration, the instant t = startTime + duration included
\* (with the decay rate (startPrice - endPrice) / duration).
C15_EndPriceFromExpiry ==
    ( /\ quote.quoted
      /\ C15_ChainDecayRate
      /\ quote.t >= timeUnix(quote.startTime + quote.duration) )
        => quote.relayer = quote.endPrice

\* C16: given the same startPrice, endPrice, startTime, duration and current
\* time (at or after startTime, the relayer holding the decay rate the auction
\* has on chain), calculateDutchAuctionPrice, DutchAuctionManager.getCurrentPrice
\* and DutchAuction.getCurrentPrice return the same price.
C16_SamePrice ==
    ( /\ quote.quoted
      /\ C15_ChainDecayRate
      /\ quote.t >= timeUnix(quote.startTime) )
        => /\ ~quote.manager.reverted
           /\ ~quote.auction.reverted
           /\ quote.relayer = quote.manager.price
           /\ quote.manager.price = quote.auction.price

\* C17: once a bid has been accepted for an auction (its winner is recorded),
\* the auction is sealed: the recorded winner and winningPrice never change,
\* no later placeBid on it succeeds, and getCurrentPrice returns the
\* winningPrice at every later time.
C17_Sealed(o) == auctions[o].winner # AddressZero

C17_SealedPrice ==
    \A o \in OrderIds :
        C17_Sealed(o) =>
            DutchAuctionManager_getCurrentPrice(auctions[o], now)
                = Price(auctions[o].winningPrice)

C17_SealedStep ==
    \A o \in OrderIds :
        C17_Sealed(o) =>
            /\ auctions'[o].winner = auctions[o].winner
            /\ auctions'[o].winningPrice = auctions[o].winningPrice
            /\ (CallStep("placeBid") /\ call'.orderId = o) => err' # "ok"

C17_AuctionSealed == [](C17_SealedPrice) /\ [][C17_SealedStep]_vars

\* an authorized bidder's bid on a sealed auction was refused after the price
\* of the unsealed auction would have decayed below the winning price
C17_Witness ==
    \E o \in OrderIds :
        /\ C17_Sealed(o)
        /\ call.op = "placeBid"
        /\ call.orderId = o
        /\ call.sender \in authorizedBidders
        /\ call.sender # auctions[o].winner
        /\ err = "DutchAuctionManager: Auction not active"
        /\ now >= auctions[o].endTime
        /\ auctions[o].winningPrice > auctions[o].params.endPrice

\* C18: for every order in the coordinator's store the stored CurrentPrice is
\* non-increasing over time: no price refresh, no re-ingestion of the same
\* escrow and no other coordinator step replaces it with a larger value.
C18_PriceStep ==
    \A id \in DOMAIN activeOrders \cap DOMAIN activeOrders' :
        (activeOrders[id].DutchAuction # Nil /\ activeOrders'[id].DutchAuction # Nil)
            => activeOrders'[id].CurrentPrice <= activeOrders[id].CurrentPrice

C18_StoredPriceNeverRises == [][C18_PriceStep]_vars

\* the status changes an order may make
C19_Edges ==
    {<<OrderStatusPending, OrderStatusActive>>,
     <<OrderStatusActive, OrderStatusMatched>>,
     <<OrderStatusMatched, OrderStatusCompleted>>,
     <<OrderStatusActive, OrderStatusExpired>>,
     <<OrderStatusMatched, OrderStatusExpired>>,
     <<OrderStatusActive, OrderStatusCancelled>>,
     <<OrderStatusMatched, OrderStatusCancelled>>}

\* a status once stored changes only along the edges or to Failed
C19_StoredStatusStep ==
    \A id \in DOMAIN activeOrders \cap DOMAIN activeOrders' :
        \/ activeOrders'[id].Status = activeOrders[id].Status
        \/ activeOrders'[id].Status = OrderStatusFailed
        \/ <<activeOrders[id].Status, activeOrders'[id].Status>> \in C19_Edges

\* C19: every order enters the coordinator (is sent on newOrdersChan) as
\* Pending, is stored as Pending, Active (Pending->Active) or Failed, and every
\* later change of its status follows one of the edges Pending->Active,
\* Active->Matched, Matched->Completed, Active|Matched->Expired,
\* Active|Matched->Cancelled or any->Failed.
C19_StatusStep ==
    /\ \A i \in DOMAIN newOrdersChan' :
          newOrdersChan'[i].Status = OrderStatusPending
    /\ \A id \in DOMAIN activeOrders' \ DOMAIN activeOrders :
          activeOrders'[id].Status
              \in {OrderStatusPending, OrderStatusActive, OrderStatusFailed}
    /\ C19_StoredStatusStep

C19_StatusEdges == [][C19_StatusStep]_vars

C20_Terminal ==
    {OrderStatusCompleted, OrderStatusCancelled, OrderStatusExpired, OrderStatusFailed}

\* C20: Completed, Cancelled, Expired and Failed are terminal: an order with
\* one of these statuses never changes its status again, and it is not in
\* activeOrders, the working set the sweeps iterate over.
C20_NotInWorkingSet ==
    \A id \in DOMAIN activeOrders : activeOrders[id].Status \notin C20_Terminal

C20_TerminalStep ==
    \A id \in DOMAIN activeOrders \cap DOMAIN activeOrders' :
        activeOrders[id].Status \in C20_Terminal
            => activeOrders'[id].Status = activeOrders[id].Status

C20_TerminalIsFinal == [](C20_NotInWorkingSet) /\ [][C20_TerminalStep]_vars


\* every Order within reach: the stored ones and the ones a channel points to
C21_Orders == {Heap[p] : p \in Pointers}

\* a recorded failure was counted, and Failed means the retries were used up
C21_FailuresCounted ==
    \A o \in C21_Orders :
        /\ o.LastError # "" => o.RetryCount >= 1
        /\ o.Status = OrderStatusFailed => o.RetryCount > MaxRetries

\* a command is sent only for an order that is not Failed and has retries left
C21_CommandStep ==
    \A i \in (Len(commands) + 1) .. Len(commands') :
        \A id \in DOMAIN activeOrders :
            commands'[i].id = id =>
                /\ activeOrders[id].Status # OrderStatusFailed
                /\ activeOrders[id].RetryCount <= MaxRetries

\* C21: every failed ledger command of an order increments its RetryCount, an
\* order is Failed only once RetryCount exceeds MaxRetries (a failed deployment
\* is retried up to the bound first), and no command is sent for an order that
\* is Failed or has used up its retries.
C21_RetriesBounded == [](C21_FailuresCounted) /\ [][C21_CommandStep]_vars

\* C22: matchOrders moves an order from Active to Matched only when both its
\* escrows are funded and source-confirmed on their ledgers.
C22_MatchStep ==
    \A id \in DOMAIN activeOrders \cap DOMAIN activeOrders' :
        /\ activeOrders[id].Status = OrderStatusActive
        /\ activeOrders'[id].Status = OrderStatusMatched
        => ledger.funded

C23_Withdraws(id) ==
    Sent("WithdrawFromEscrow", id) + Sent("PartialWithdrawFromEscrow", id)

C26_SweepStep ==
    CallStep("checkOrderTimeouts") =>
        /\ \A id \in DOMAIN activeOrders :
              (activeOrders[id].Status = OrderStatusActive
                  /\ timeNow > activeOrders[id].ExpiresAt)
              => (id \in DOMAIN activeOrders'
                  /\ activeOrders'[id].Status = OrderStatusExpired)
        /\ commands' = commands

C26_ExpiredBySweep == [][C26_SweepStep]_vars

C26_Witness ==
    /\ call.op = "checkOrderTimeouts"
    /\ \E id \in DOMAIN activeOrders :
          /\ activeOrders[id].Status = OrderStatusExpired
          /\ activeOrders[id].DestTxHash # EmptyString
          /\ timeNow > activeOrders[id].ExpiresAt

\* C27: processing an escrow that was fetched and stored before leaves the
\* store as it was: the same orders, statuses, prices and transaction hashes.
C27_RefetchStep ==
    (CallStep("processNewOrders") /\ newOrdersChan # <<>>
        /\ Head(newOrdersChan).ID \in DOMAIN activeOrders)
    => /\ DOMAIN activeOrders' = DOMAIN activeOrders
       /\ \A id \in DOMAIN activeOrders :
             [activeOrders'[id] EXCEPT !.ptr = 0] = [activeOrders[id] EXCEPT !.ptr = 0]

C28_InsertStep ==
    \A id \in DOMAIN activeOrders \cap DOMAIN activeOrders' :
        activeOrders'[id].ptr = activeOrders[id].ptr

C30_ClaimStep ==
    (CallStep("claimOrder") /\ err' = "ok") =>
        LET order == partialOrders[call'.orderId]
            p == DutchAuctionPartial_getCurrentPrice(order, BlockTimestamp(now)).price
            pays == call'.transfers[1]
        IN /\ pays.from = call'.sender /\ pays.to = order.maker
           /\ pays.amount * order.startPrice <= order.tokenAmount * p
           /\ (pays.amount + 1) * order.startPrice > order.tokenAmount * p
           /\ pays.amount <= order.tokenAmount
           /\ tokenBalance'[call'.sender] + pays.amount
                  = tokenBalance[call'.sender] + call'.transfers[2].amount
                    + (IF order.maker = call'.sender THEN pays.amount ELSE 0)

C30_ResolverPaysFloor == [][C30_ClaimStep]_vars

C30_Witness ==
    /\ call.op = "claimOrder" /\ err = "ok"
    /\ call.sender = "resolver"
    /\ call.transfers[1].amount > 0
    /\ call.transfers[1].amount < partialOrders[call.orderId].tokenAmount
    /\ (partialOrders[call.orderId].tokenAmount * 2) % partialOrders[call.orderId].startPrice # 0


\* a goroutine in a unit of work does not end before the unit is complete
C29_WorkStep ==
    \A w \in DOMAIN workers \cap DOMAIN workers' :
        workers[w] = "work" => workers'[w] \in {"work", "select"}

C29_AllDone == workers # <<>> /\ \A w \in Workers : workers[w] = "done"

\* C29: after Stop is called on a started OrderManager every one of the four
\* goroutines completes the unit of work it is in, takes the closed stopChan
\* and ends, and then Stop returns.
C29_StopReturns ==
    /\ [][C29_WorkStep]_vars
    /\ [](stop = "returned" => C29_AllDone)
    /\ (stop = "waiting") ~> (stop = "returned")

C29_Witness ==
    /\ stop = "returned"
    /\ C29_AllDone
    /\ activeOrders # <<>>

C31_CreateStep ==
    CallStep("CreateHTLC") =>
        IF err' = "ok"
        THEN /\ call'.id = Cardinality(DOMAIN htlcs) + 1
             /\ call'.id \notin DOMAIN htlcs
             /\ \A i \in DOMAIN htlcs : i < call'.id /\ htlcs'[i] = htlcs[i]
             /\ DOMAIN htlcs' = DOMAIN htlcs \cup {call'.id}
             /\ htlcs'[call'.id].Id = call'.id
             /\ nextHTLCId' = nextHTLCId + 1
        ELSE err' \in {"ErrInvalidHashLock", "ErrInvalidTimeLock"} =>
                /\ call'.hashLock.len # Sha256Size \/ call'.timeLock <= now
                /\ htlcs' = htlcs
                /\ nextHTLCId' = nextHTLCId

\* C31: a successful CreateHTLC returns the next ID of the sequence 1, 2, 3,
\* ..., an ID no stored HTLC has, and leaves every stored HTLC as it was; a
\* CreateHTLC rejected for its hash lock's length or for a time lock that is
\* not in the future changes neither the HTLC store nor the next-ID counter.
C31_FreshIdsAndNoOverwrite == [][C31_CreateStep]_vars

\* the second HTLC was created and got the ID 2
C31_Witness ==
    /\ call.op = "CreateHTLC" /\ err = "ok" /\ call.id = 2
    /\ DOMAIN htlcs = {1, 2}
    /\ nextHTLCId = 3

\* the call changed no HTLC and moved no funds
C32_NoEffect == err' # "ok" /\ htlcs' = htlcs /\ bank' = bank

C32_AuthStep ==
    /\ CallStep("ClaimHTLC") =>
          \/ /\ call'.id \in DOMAIN htlcs
             /\ call'.sender = htlcs[call'.id].Receiver
          \/ C32_NoEffect
    /\ CallStep("RefundHTLC") =>
          \/ /\ call'.id \in DOMAIN htlcs
             /\ call'.sender = htlcs[call'.id].Sender
          \/ C32_NoEffect

\* C32: a ClaimHTLC by an account that is not the HTLC's receiver, and a
\* RefundHTLC by an account that is not its sender, fails, changes no HTLC and
\* moves no funds.
C32_OnlyReceiverClaimsOnlySenderRefunds == [][C32_AuthStep]_vars

\* an account that is not the receiver presented the right preimage in time
\* and was turned away
C32_Witness ==
    /\ call.op = "ClaimHTLC" /\ err = "ErrUnauthorizedClaimer"
    /\ call.sender = "other"
    /\ ~htlcs[call.id].Claimed
    /\ bank[ModuleName] > 0

C33_Settled(h) == h.Claimed \/ h.Refunded

\* the amounts of the HTLCs with the IDs `ids` that are neither claimed nor
\* refunded
RECURSIVE C33_Locked(_)
C33_Locked(ids) ==
    IF ids = {} THEN 0
    ELSE LET id == CHOOSE i \in ids : TRUE IN
         (IF C33_Settled(htlcs[id]) THEN 0 ELSE htlcs[id].Amount)
         + C33_Locked(ids \ {id})

C33_Once ==
    /\ \A id \in DOMAIN htlcs : ~(htlcs[id].Claimed /\ htlcs[id].Refunded)
    /\ bank[ModuleName] = C33_Locked(DOMAIN htlcs)

C33_SettledStep ==
    /\ \A id \in DOMAIN htlcs : C33_Settled(htlcs[id]) => htlcs'[id] = htlcs[id]
    /\ (/\ CallStep("ClaimHTLC") \/ CallStep("RefundHTLC")
        /\ call'.id \in DOMAIN htlcs
        /\ C33_Settled(htlcs[call'.id])) =>
          err' \in {"ErrHTLCClaimed", "ErrHTLCRefunded"} /\ bank' = bank

\* C33: no HTLC is both claimed and refunded; a claimed or refunded HTLC is
\* never written again, every later ClaimHTLC or RefundHTLC on it fails and
\* moves no funds, and the module account holds exactly the amounts of the
\* HTLCs that are neither claimed nor refunded.
C33_ClaimedOrRefundedOnce == []C33_Once /\ [][C33_SettledStep]_vars

\* the receiver claimed, and at the time lock the sender's refund of the same
\* HTLC was rejected while the module still held another HTLC's amount
C33_Witness ==
    /\ call.op = "RefundHTLC" /\ err = "ErrHTLCClaimed"
    /\ call.sender = htlcs[call.id].Sender
    /\ now >= htlcs[call.id].TimeLock
    /\ bank[ModuleName] >= htlcs[call.id].Amount

C34_Acceptable(msg) ==
    /\ ~Empty(msg.Sender) /\ ~Empty(msg.Receiver)
    /\ msg.HashLock.len = Sha256Size
    /\ msg.TimeLock > 0

\* C34: ValidateBasic accepts a MsgCreateHTLC exactly when sender and
\* receiver are non-empty, the hash lock is 32 bytes long and the time lock is
\* positive, whatever the amount; with both addresses given it rejects a
\* hash lock of another length with ErrInvalidHashLock, and otherwise a time
\* lock that is not positive with ErrInvalidTimeLock.
C34_ValidateBasicAccepts ==
    call.op = "ValidateBasic" =>
        /\ err = "ok" <=> C34_Acceptable(call.msg)
        /\ (/\ ~Empty(call.msg.Sender) /\ ~Empty(call.msg.Receiver)
            /\ call.msg.HashLock.len # Sha256Size) => err = "ErrInvalidHashLock"
        /\ (/\ ~Empty(call.msg.Sender) /\ ~Empty(call.msg.Receiver)
            /\ call.msg.HashLock.len = Sha256Size
            /\ call.msg.TimeLock <= 0) => err = "ErrInvalidTimeLock"

C35_StatusStep ==
    \A p \in Pointers \cap Pointers' :
        /\ (Heap[p].Status # OrderStatusExpired /\ Heap'[p].Status = OrderStatusExpired)
              => call'.op = "checkOrderTimeouts"
        /\ Heap[p].Status = OrderStatusExpired => Heap'[p].Status # OrderStatusMatched

C36_WriteStep ==
    \A p \in Pointers \cap Pointers' :
        Heap'[p].Status # Heap[p].Status =>
            \E t \in DOMAIN tasks : tasks'[t] # tasks[t] /\ ordersMutex.writer = t

C37_LedgerStep ==
    \A t \in DOMAIN tasks :
        tasks'[t] # tasks[t] =>
            /\ commands' # commands => ~Holds(t)
            /\ (tasks[t].pc = "syncOrderStates" /\ tasks'[t].pc = "RUnlock") =>
                  /\ t \in ordersMutex'.readers /\ ordersMutex'.writer = ""
                  /\ tasks'[t].ptrs \in Snapshots
            /\ tasks[t].pc = "syncOrderState" => ~Holds(t)

\* C37: a goroutine that sends a command to a ledger does not hold
\* ordersMutex, neither for writing nor for reading; syncOrderStates copies the
\* stored Orders under the read lock and has released it when it turns to
\* the single Orders.
C37_NoLedgerCallUnderMutex == [][C37_LedgerStep]_vars

\* processNewOrders sent the deployment of a destination escrow while
\* monitorActiveOrders held the write lock, and now waits for the lock
C37_Witness ==
    /\ call.op = "handleNewOrder"
    /\ commands # <<>>
    /\ ordersMutex.writer = "monitorActiveOrders"
    /\ tasks["processNewOrders"].pc = "Lock"


\* C38: in the handler-based module a claim of an HTLC that was already
\* claimed or refunded (its SecretRevealed is set) fails and leaves every
\* bank balance as it was, so the locked amount leaves the module account
\* at most once.
C38_ClaimStep ==
    (/\ CallStep("handleMsgClaimHTLC")
     /\ call'.htlcId \in DOMAIN htlcStore
     /\ htlcStore[call'.htlcId].SecretRevealed)
    => (err' # "ok" /\ bank' = bank)
C38_AmountLeavesModuleOnce == [][C38_ClaimStep]_vars

\* C39: in the handler-based module a successful handleMsgCreateHTLC leaves
\* every stored HTLC whose funds are still locked with its own record: its
\* sender, recipient and amount stay as they were created.
C39_CreateStep ==
    (CallStep("handleMsgCreateHTLC") /\ err' = "ok")
    => \A key \in DOMAIN htlcStore :
          ~htlcStore[key].SecretRevealed
          => /\ htlcStore'[key].Sender = htlcStore[key].Sender
             /\ htlcStore'[key].Recipient = htlcStore[key].Recipient
             /\ htlcStore'[key].Amount = htlcStore[key].Amount
C39_CreateNeverReplaces == [][C39_CreateStep]_vars


\* C40: the last scanned block of either ledger never decreases, and a scan
\* that returns an error (the latest block or the new escrows could not be
\* fetched) leaves the cursor of its ledger where it was.
C40_CursorStep ==
    /\ lastCronosBlock' >= lastCronosBlock
    /\ lastEthereumBlock' >= lastEthereumBlock
    /\ (CallStep("scanCronosOrders") /\ err' # "ok") => lastCronosBlock' = lastCronosBlock
    /\ (CallStep("scanEthereumOrders") /\ err' # "ok")
       => lastEthereumBlock' = lastEthereumBlock
C40_CursorNeverDecreases == [][C40_CursorStep]_vars
\* the cursor had moved, and then the escrows of a later block could not be
\* fetched
C40_Witness ==
    /\ lastCronosBlock > 0
    /\ call.op = "scanCronosOrders"
    /\ call.latestBlock.ok /\ call.latestBlock.value > lastCronosBlock
    /\ err = "failed to get Cronos orders"

====
